---- MODULE Spec2Model ----
(***************************************************************************)
(* A model of the MarkettTatylu backend: the numeric normalizer, the       *)
(* snapshot / custom report aggregators, the financial projection's order  *)
(* total resolution and the order-creating transaction of POST /reports.   *)
(*                                                                         *)
(* Numbers.  Every JavaScript number is represented by the integer that    *)
(* counts its thousandths (Scale = 1000): 30.00 is 30000, the quantity 3   *)
(* is 3000, 50.505 is 50505.  Arithmetic is exact decimal arithmetic; the  *)
(* binary rounding error of IEEE doubles is not modelled.                  *)
(*                                                                         *)
(* Values.  A JavaScript value read from a document or a request body is   *)
(* a record [t, n, s]: t is the type tag ("undefined", "null", "number",   *)
(* "NaN", "Infinity", "string"), n the number (thousandths) and s the      *)
(* string as a sequence of one-character strings.                          *)
(***************************************************************************)
EXTENDS Integers, Sequences, FiniteSets, TLC

VARIABLES
    numIn,        \* toNumber: the value v handed to toNumber
    numFallback,  \* toNumber: the caller-supplied fallback
    numOut,       \* toNumber: [done, business, server], the two results once done
    products,     \* the Product collection: _id -> document
    ord,          \* order total resolution: the order document under study
    rev,          \* order total resolution: what each aggregator attributes to ord
    users,        \* the User collection: _id -> document
    orders,       \* the Order collection, in scan order
    reports,      \* the Report collection
    projections,  \* the Projection collection
    now,          \* the local day of `new Date()`
    response,     \* the last response of a report endpoint
    stored,       \* server/routes/reports.js: the saved reports and the last PUT response
    conn,         \* connectWithRetry: attempts made, timers pending, connected
    txs,          \* concurrent order-creating requests: stock and each request's position
    cart,         \* backend-crud cart routes: the user's cart, stock, the request in progress
    auth,         \* server/routes/auth.js: the user's verification fields and issued tokens
    mw,           \* authMiddleware: the request and what the middleware did with it
    api           \* apiFetch: storage, attempts and outcome of one call

vars == <<numIn, numFallback, numOut, products, ord, rev, users, orders, reports,
          projections, now, response, stored, conn, txs, cart, auth, mw, api>>
coreVars == <<numIn, numFallback, numOut, products, ord, rev, users, orders, reports,
              projections, now, response>>
extVars == <<stored, conn, txs, cart, auth, mw, api>>
repVars == <<orders, reports, projections, now, response>>
numVars == <<numIn, numFallback, numOut>>
ordVars == <<ord, rev>>

-----------------------------------------------------------------------------
(* Bounds of the model *)

MaxStrLen == 3
MaxItems == 2
MaxOrders == 2
MaxReports == 1
MaxRequests == 2
MaxCartLines == 3
MaxTokens == 3
MaxClock == 2
MaxHeaderLen == 4

-----------------------------------------------------------------------------
(* Number representation *)

MoneyFactor == 100
Scale == MoneyFactor * 10

Undef == [t |-> "undefined", n |-> 0, s |-> <<>>]
Null == [t |-> "null", n |-> 0, s |-> <<>>]
NaNVal == [t |-> "NaN", n |-> 0, s |-> <<>>]
InfVal == [t |-> "Infinity", n |-> 0, s |-> <<>>]
Num(k) == [t |-> "number", n |-> k, s |-> <<>>]
Str(chars) == [t |-> "string", n |-> 0, s |-> chars]

\* a whole number of units, e.g. N(3) is the JavaScript number 3
N(k) == Num(k * Scale)
\* an amount given in cents, e.g. Cents(5050) is 50.50
Cents(c) == Num(c * (Scale \div MoneyFactor))

Truthy(v) ==
    \/ v.t = "number" /\ v.n # 0
    \/ v.t = "Infinity"
    \/ v.t = "string" /\ v.s # <<>>

Nullish(v) == v.t \in {"undefined", "null"}

\* a || b || ... : the first truthy operand, else the last one
RECURSIVE OrChain(_)
OrChain(vs) ==
    IF Len(vs) = 1 \/ Truthy(Head(vs)) THEN Head(vs) ELSE OrChain(Tail(vs))

\* a ?? b ?? ... : the first operand that is neither null nor undefined
RECURSIVE Coalesce(_)
Coalesce(vs) ==
    IF Len(vs) = 1 \/ ~Nullish(Head(vs)) THEN Head(vs) ELSE Coalesce(Tail(vs))

-----------------------------------------------------------------------------
(* Strings and Number(string) *)

Digits == <<"0", "1", "2", "3", "4", "5", "6", "7", "8", "9">>
DigitSet == {Digits[i] : i \in 1..Len(Digits)}
DigitVal(c) == (CHOOSE i \in 1..Len(Digits) : Digits[i] = c) - 1

IsKept(c) == c \in DigitSet \cup {",", ".", "-"}

\* v.replace(/[^0-9,.-]/g, '')
StripNonNumeric(s) == SelectSeq(s, IsKept)

IndexOf(s, c) ==
    IF \E i \in 1..Len(s) : s[i] = c
    THEN CHOOSE i \in 1..Len(s) : s[i] = c /\ \A j \in 1..(i - 1) : s[j] # c
    ELSE 0

\* .replace(',', '.') with a string pattern: only the FIRST comma is replaced
ReplaceFirstComma(s) ==
    LET At(i) == IF i = 0 THEN s ELSE [s EXCEPT ![i] = "."]
    IN  At(IndexOf(s, ","))

RECURSIVE TrimLeft(_)
TrimLeft(s) == IF s # <<>> /\ Head(s) = " " THEN TrimLeft(Tail(s)) ELSE s

RECURSIVE TrimRight(_)
TrimRight(s) ==
    IF s # <<>> /\ s[Len(s)] = " " THEN TrimRight(SubSeq(s, 1, Len(s) - 1)) ELSE s

RECURSIVE DigitsValue(_)
DigitsValue(s) ==
    IF s = <<>> THEN 0
    ELSE 10 * DigitsValue(SubSeq(s, 1, Len(s) - 1)) + DigitVal(s[Len(s)])

AllDigits(s) == \A i \in 1..Len(s) : s[i] \in DigitSet

\* the thousandths denoted by the fraction digits (digits after the third are dropped)
FractionValue(f) ==
    LET d(i) == IF i <= Len(f) THEN DigitVal(f[i]) ELSE 0
    IN  100 * d(1) + 10 * d(2) + d(3)

\* an unsigned decimal literal: digits, digits., digits.digits, .digits
IsUnsignedDecimal(s) ==
    LET Parts(ip, fp) == AllDigits(ip) /\ AllDigits(fp) /\ Len(ip) + Len(fp) > 0
        At(dot) == Parts(IF dot = 0 THEN s ELSE SubSeq(s, 1, dot - 1),
                         IF dot = 0 THEN <<>> ELSE SubSeq(s, dot + 1, Len(s)))
    IN  At(IndexOf(s, "."))

UnsignedValue(s) ==
    LET At(dot) ==
            DigitsValue(IF dot = 0 THEN s ELSE SubSeq(s, 1, dot - 1)) * Scale
                + FractionValue(IF dot = 0 THEN <<>> ELSE SubSeq(s, dot + 1, Len(s)))
    IN  At(IndexOf(s, "."))

\* Number(s) for a string s without letters: white space is trimmed, the empty
\* string is 0, a signed decimal literal is its value, everything else is NaN
NumberOfString(s) ==
    LET Literal(t) ==
            LET signed == t # <<>> /\ Head(t) \in {"-", "+"}
                Digits10(body) ==
                    IF IsUnsignedDecimal(body)
                    THEN Num(IF signed /\ Head(t) = "-" THEN 0 - UnsignedValue(body)
                             ELSE UnsignedValue(body))
                    ELSE NaNVal
            IN  IF t = <<>> THEN Num(0)
                ELSE Digits10(IF signed THEN Tail(t) ELSE t)
    IN  Literal(TrimRight(TrimLeft(s)))

\* Number(v)
ToJsNumber(v) ==
    CASE v.t = "undefined" -> NaNVal
      [] v.t = "null" -> Num(0)
      [] v.t = "string" -> NumberOfString(v.s)
      [] OTHER -> v

IsFinite(v) == v.t = "number"

-----------------------------------------------------------------------------
(* toNumber and roundMoney *)

\* toNumber of routes/reports and routes/projections (backend-business)
toNumber(v, fallback) ==
    LET OrFallback(n) == IF IsFinite(n) THEN n.n ELSE fallback
    IN  OrFallback(IF v.t = "string"
                   THEN NumberOfString(ReplaceFirstComma(StripNonNumeric(v.s)))
                   ELSE ToJsNumber(v))

\* toNumber of server/routes/reports.js
toNumberServer(v, fallback) ==
    LET OrFallback(n) == IF IsFinite(n) THEN n.n ELSE fallback
    IN  OrFallback(ToJsNumber(v))

\* Math.round(x / d) for d > 0: the nearest integer, ties towards +Infinity
RoundDiv(x, d) == (2 * x + d) \div (2 * d)

\* Math.round(v * 100) / 100
roundMoney(v) == RoundDiv(v, Scale \div MoneyFactor) * (Scale \div MoneyFactor)

-----------------------------------------------------------------------------
(* The normalizer applied to one input *)

Alphabet == {"1", "5", ".", ",", "-", "$"}

RECURSIVE StringsUpTo(_)
StringsUpTo(k) ==
    IF k = 0 THEN {<<>>}
    ELSE LET shorter == StringsUpTo(k - 1)
         IN  shorter \cup {Append(s, c) : s \in shorter, c \in Alphabet}

SampleStrings ==
    { <<"1", ".", "2", "3", "4", ",", "5", "6">>,     \* "1.234,56"
      <<"1", ",", "2", "3", "4">>,                    \* "1,234"
      <<"1", "2", "3", "4", ",", "5", "6">>,          \* "1234,56"
      <<"$", " ", "1", "2", ".", "5", "0">>,          \* "$ 12.50"
      <<"a", "b", "c">>,                              \* "abc"
      <<" ", "7", " ">> }                             \* " 7 "

NumInputs ==
    {Undef, Null, NaNVal, InfVal, N(0), N(7), Cents(-550)}
        \cup {Str(s) : s \in StringsUpTo(MaxStrLen) \cup SampleStrings}

Fallbacks == {0, 5 * Scale}

NumNotRun == [done |-> FALSE, business |-> 0, server |-> 0]

NumInit ==
    /\ numIn \in NumInputs
    /\ numFallback \in Fallbacks
    /\ numOut = NumNotRun

NumIdle ==
    /\ numIn = Undef
    /\ numFallback = 0
    /\ numOut = NumNotRun

ApplyToNumber ==
    /\ ~numOut.done
    /\ numOut' = [done |-> TRUE,
                  business |-> toNumber(numIn, numFallback),
                  server |-> toNumberServer(numIn, numFallback)]
    /\ UNCHANGED <<extVars, numIn, numFallback, products, users, ordVars, repVars>>

-----------------------------------------------------------------------------
(* Documents *)

\* a totals object ({subtotal, iva, envio, discount, total} and their aliases);
\* obj = FALSE: there is no such object
NoTotals ==
    [obj |-> FALSE, subtotal |-> Undef, subTotal |-> Undef, iva |-> Undef,
     tax |-> Undef, envio |-> Undef, shipping |-> Undef, discount |-> Undef,
     total |-> Undef]

MkTotals(sub, iva, env, disc, tot) ==
    [NoTotals EXCEPT !.obj = TRUE, !.subtotal = sub, !.iva = iva, !.envio = env,
                     !.discount = disc, !.total = tot]

\* an array of line items; arr = FALSE: the field is absent
NoItems == [arr |-> FALSE, list |-> <<>>]
ItemArray(l) == [arr |-> TRUE, list |-> l]

NoCliente == [obj |-> FALSE, email |-> "", id |-> "", nombre |-> "", apellido |-> ""]

\* order.resumen: the totals fields of the legacy shape, and totales, productos, cliente
NoResumen ==
    [obj |-> FALSE, subtotal |-> Undef, subTotal |-> Undef, iva |-> Undef,
     tax |-> Undef, envio |-> Undef, shipping |-> Undef, discount |-> Undef,
     total |-> Undef, totales |-> NoTotals, productos |-> NoItems,
     cliente |-> NoCliente]

\* a Date-typed field: kind is "absent", "date" (day is the local calendar day,
\* counted from 2024-01-01 = 0) or "invalid" (an Invalid Date)
NoDate == [kind |-> "absent", day |-> 0]
OnDay(d) == [kind |-> "date", day |-> d]
BadDate == [kind |-> "invalid", day |-> 0]

EmptyOrder ==
    [resumen |-> NoResumen, totales |-> NoTotals, total |-> Undef,
     totalAmount |-> Undef, productos |-> NoItems, items |-> NoItems,
     fecha |-> NoDate, createdAt |-> NoDate, estado |-> "", userId |-> "",
     user |-> ""]

\* a line item; strings are "" and categories <<>> when the field is absent;
\* obj = FALSE: the array entry is null
EmptyItem ==
    [obj |-> TRUE, productId |-> "", id |-> "", cantidad |-> Undef, quantity |-> Undef, qty |-> Undef,
     precio |-> Undef, unitPrice |-> Undef, price |-> Undef,
     precioUnitario |-> Undef, subtotal |-> Undef, lineTotal |-> Undef,
     total |-> Undef, nombre |-> "", categoria |-> <<>>, category |-> <<>>]

NullItem == [EmptyItem EXCEPT !.obj = FALSE]

Otros == <<"o", "t", "r", "o", "s">>

\* obj?.f
Field(o, f) == IF o.obj THEN o[f] ELSE Undef

\* order.resumen?.totales?.total
ResumenTotalesTotal(o) ==
    IF o.resumen.obj /\ o.resumen.totales.obj THEN o.resumen.totales.total ELSE Undef

-----------------------------------------------------------------------------
(* Product lookup *)

\* buildProductMap: _id -> {id, name, category, price}
buildProductMap(prods) ==
    [p \in DOMAIN prods |->
        [id |-> prods[p].id,
         name |-> IF prods[p].nombre # "" THEN prods[p].nombre ELSE "Unnamed product",
         category |-> IF prods[p].categoria # <<>> THEN prods[p].categoria ELSE Otros,
         price |-> toNumber(prods[p].precio, 0)]]

\* productMap.get(pid) || {}
NoInfo == [id |-> "", name |-> "", category |-> <<>>, price |-> 0]
InfoOf(pm, pid) == IF pid \in DOMAIN pm THEN pm[pid] ELSE NoInfo

\* roundMoney(a * b), computed on the exact product
RoundMoneyProduct(a, b) ==
    RoundDiv(a * b, Scale * (Scale \div MoneyFactor)) * (Scale \div MoneyFactor)

\* the sum of val[i] over the indices i of S
RECURSIVE SumIdx(_, _)
SumIdx(val, S) ==
    IF S = {} THEN 0
    ELSE LET i == CHOOSE x \in S : TRUE
         IN  val[i] + SumIdx(val, S \ {i})

Max(a, b) == IF a >= b THEN a ELSE b
Min(a, b) == IF a <= b THEN a ELSE b

-----------------------------------------------------------------------------
(* Local calendar: a day is counted from 2024-01-01 (day 0, a Monday) *)

\* new Date(0): 1970-01-01
EpochDay == -19723

IsLeap(y) == (y % 4 = 0 /\ y % 100 # 0) \/ y % 400 = 0
DaysInYear(y) == IF IsLeap(y) THEN 366 ELSE 365
DaysInMonth(y, m) ==
    IF m = 2 THEN (IF IsLeap(y) THEN 29 ELSE 28)
    ELSE IF m \in {4, 6, 9, 11} THEN 30 ELSE 31

\* rem days after the first day of month m of year y
RECURSIVE CivilFrom(_, _, _)
CivilFrom(y, m, rem) ==
    IF m = 1 /\ rem < 0 THEN CivilFrom(y - 1, 1, rem + DaysInYear(y - 1))
    ELSE IF m = 1 /\ rem >= DaysInYear(y) THEN CivilFrom(y + 1, 1, rem - DaysInYear(y))
    ELSE IF rem >= DaysInMonth(y, m) THEN CivilFrom(y, m + 1, rem - DaysInMonth(y, m))
    ELSE [y |-> y, m |-> m, d |-> rem + 1]

\* getFullYear(), getMonth() + 1, getDate()
Civil(day) == CivilFrom(2024, 1, day)

\* the day of new Date(y, 0, 1)
RECURSIVE YearStart(_)
YearStart(y) ==
    IF y = 2024 THEN 0
    ELSE IF y > 2024 THEN YearStart(y - 1) + DaysInYear(y - 1)
    ELSE YearStart(y + 1) - DaysInYear(y)

\* getDay(): 0 is Sunday
GetDay(day) == (day + 1) % 7

startOfDay(day) == day

startOfWeek(day) ==
    LET wd == GetDay(day)
    IN  day - wd + (IF wd = 0 THEN -6 ELSE 1)

startOfMonth(day) == day - (Civil(day).d - 1)

\* new Date(order.fecha || order.createdAt || 0)
OrderDate(o) ==
    IF o.fecha.kind # "absent" THEN o.fecha
    ELSE IF o.createdAt.kind # "absent" THEN o.createdAt
    ELSE OnDay(EpochDay)

\* orderDate >= start, false for an Invalid Date
OnOrAfter_Unchecked(date, start) == date.day >= start
OnOrAfter(date, start) == date.kind = "date" /\ date.day >= start
OnOrBefore(date, end) == date.kind = "date" /\ date.day <= end

\* a period key; the fields an unused granularity leaves out are 0.  The
\* zero-padded strings YYYY-MM-DD, YYYY-Www and YYYY-MM of one granularity
\* compare like these tuples.
formatMonthKey(day) == <<Civil(day).y, Civil(day).m, 0>>

getIsoWeekKey(day) ==
    LET th == day + 3 - ((GetDay(day) + 6) % 7)
        week1 == YearStart(Civil(th).y) + 3
        week == 1 + RoundDiv((th - week1) - 3 + ((GetDay(week1) + 6) % 7), 7)
    IN  <<Civil(th).y, week, 0>>

getPeriodKey(day, groupBy) ==
    IF groupBy = "day" THEN <<Civil(day).y, Civil(day).m, Civil(day).d>>
    ELSE IF groupBy = "week" THEN getIsoWeekKey(day)
    ELSE formatMonthKey(day)

KeyLess(a, b) ==
    \/ a[1] < b[1]
    \/ a[1] = b[1] /\ a[2] < b[2]
    \/ a[1] = b[1] /\ a[2] = b[2] /\ a[3] < b[3]

-----------------------------------------------------------------------------
(* Order total resolution *)

\* one iteration of computeOrderTotalFromItems (routes/reports): the line revenue
LineRevenueFromItem(item, pm, useMap) ==
    LET qty == toNumber(OrChain(<<item.cantidad, item.quantity, item.qty>>), 0)
        pid == IF item.productId # "" THEN item.productId ELSE item.id
        info == InfoOf(pm, pid)
        UnitPrice(listed) ==
            IF listed = 0 /\ useMap /\ info.price # 0 THEN info.price ELSE listed
        Line(lineRevenue, unitPrice) ==
            IF lineRevenue = 0 /\ unitPrice > 0
            THEN RoundMoneyProduct(unitPrice, qty)
            ELSE lineRevenue
    IN  Line(toNumber(OrChain(<<item.subtotal, item.lineTotal, item.total>>), 0),
             UnitPrice(toNumber(OrChain(<<item.precio, item.unitPrice, item.price,
                                          item.precioUnitario>>), 0)))

RECURSIVE SumLineRevenue(_, _, _)
SumLineRevenue(list, pm, useMap) ==
    IF list = <<>> THEN 0
    ELSE LineRevenueFromItem(Head(list), pm, useMap)
             + SumLineRevenue(Tail(list), pm, useMap)

\* computeOrderTotalFromItems(items, productMap) of routes/reports
computeOrderTotalFromItems(list, pm) == roundMoney(SumLineRevenue(list, pm, TRUE))

\* computeOrderTotalFromItems(items) of routes/projections: no product lookup
computeOrderTotalFromItemsProjection(list) ==
    roundMoney(SumLineRevenue(list, << >>, FALSE))

\* order.resumen?.productos || order.productos || order.items || []
OrderItems(o) ==
    IF o.resumen.obj /\ o.resumen.productos.arr THEN o.resumen.productos.list
    ELSE IF o.productos.arr THEN o.productos.list
    ELSE IF o.items.arr THEN o.items.list
    ELSE <<>>

\* toNumber(order.resumen?.totales?.total ?? order.resumen?.total ??
\*          order.totales?.total ?? order.total ?? order.totalAmount ?? 0, 0)
ExplicitTotal(o) ==
    toNumber(Coalesce(<<ResumenTotalesTotal(o),
                        Field(o.resumen, "total"),
                        Field(o.totales, "total"),
                        o.total, o.totalAmount, Num(0)>>), 0)

\* the component fallback of buildReportData and buildFinancialProjection: it
\* reads the fields of order.resumen itself
ComponentTotal(o, current) ==
    IF current = 0 /\ o.resumen.obj
    THEN LET r == o.resumen
             Sum(subtotal, taxes, shipping, discount) ==
                 IF subtotal # 0 \/ taxes # 0 \/ shipping # 0 \/ discount # 0
                 THEN roundMoney(Max(0, subtotal + taxes + shipping - discount))
                 ELSE current
         IN  Sum(toNumber(Coalesce(<<r.subtotal, r.subTotal, Num(0)>>), 0),
                 toNumber(Coalesce(<<r.iva, r.tax, Num(0)>>), 0),
                 toNumber(Coalesce(<<r.envio, r.shipping, Num(0)>>), 0),
                 toNumber(Coalesce(<<r.discount, Num(0)>>), 0))
    ELSE current

\* buildReportData (backend-business): the orderTotal added to totalSales
SnapshotOrderTotal(o, pm) ==
    LET list == OrderItems(o)
        FromItems(t1) ==
            IF t1 = 0 /\ Len(list) > 0 THEN computeOrderTotalFromItems(list, pm) ELSE t1
        FromComponents(t0) == FromItems(ComponentTotal(o, t0))
    IN  FromComponents(ExplicitTotal(o))

\* buildFinancialProjection: the orderTotal added to the month's total
ProjectionOrderTotal(o) ==
    LET list == OrderItems(o)
        FromItems(t1) ==
            IF t1 = 0 /\ Len(list) > 0
            THEN computeOrderTotalFromItemsProjection(list) ELSE t1
        FromComponents(t0) == FromItems(ComponentTotal(o, t0))
    IN  FromComponents(ExplicitTotal(o))

\* buildReportData (server/routes/reports.js): the orderTotal added to totalVentas
ServerOrderTotal(o) ==
    toNumberServer(Coalesce(<<ResumenTotalesTotal(o),
                              Field(o.totales, "total"), Num(0)>>), 0)

\* order.resumen?.totales || order.resumen || order.totales || {}
CustomTotalsObject(o) ==
    IF o.resumen.obj /\ o.resumen.totales.obj THEN o.resumen.totales
    ELSE IF o.resumen.obj THEN o.resumen
    ELSE IF o.totales.obj THEN o.totales
    ELSE [NoTotals EXCEPT !.obj = TRUE]

\* POST /reports/custom: computedTotal before the item loop
CustomComponentTotal(o, includeTaxes, includeShipping) ==
    LET totals == CustomTotalsObject(o)
        subtotal == toNumber(totals.subtotal, 0)
        taxes == toNumber(Coalesce(<<totals.iva, totals.tax>>), 0)
        shipping == toNumber(Coalesce(<<totals.envio, totals.shipping>>), 0)
        discount == toNumber(Coalesce(<<totals.discount, Num(0)>>), 0)
    IN  roundMoney(Max(0, subtotal - discount
                            + (IF includeTaxes THEN taxes ELSE 0)
                            + (IF includeShipping THEN shipping ELSE 0)))

\* POST /reports/custom: computedTotal after its two fallbacks
CustomComputedTotal(o, pm, includeTaxes, includeShipping) ==
    LET list == OrderItems(o)
        FromExplicit(c1) == IF c1 = 0 THEN ExplicitTotal(o) ELSE c1
        FromItems(c0) ==
            FromExplicit(IF c0 = 0 /\ Len(list) > 0
                         THEN computeOrderTotalFromItems(list, pm) ELSE c0)
    IN  FromItems(CustomComponentTotal(o, includeTaxes, includeShipping))

-----------------------------------------------------------------------------
(* The scan of the line items (buildReportData and POST /reports/custom) *)

ToNum(srv, v, fallback) ==
    IF srv THEN toNumberServer(v, fallback) ELSE toNumber(v, fallback)

\* String(item.productId || item.id || item._id || 'unknown')
LoopPid(item) ==
    IF item.productId # "" THEN item.productId
    ELSE IF item.id # "" THEN item.id ELSE "unknown"

LoopQty(srv, item) == ToNum(srv, OrChain(<<item.cantidad, item.quantity>>), 0)

LoopLineRevenue(srv, item, pm) ==
    LET info == InfoOf(pm, LoopPid(item))
        UnitPrice(listed) == IF listed = 0 /\ info.price # 0 THEN info.price ELSE listed
        Line(lineRevenue, unitPrice) ==
            IF lineRevenue = 0 /\ unitPrice > 0
            THEN RoundMoneyProduct(unitPrice, LoopQty(srv, item))
            ELSE lineRevenue
    IN  Line(ToNum(srv, OrChain(<<item.subtotal, item.lineTotal>>), 0),
             UnitPrice(ToNum(srv, OrChain(<<item.precio, item.unitPrice,
                                            item.price>>), 0)))

LoopName(srv, item, pm) ==
    LET info == InfoOf(pm, LoopPid(item))
    IN  IF info.name # "" THEN info.name
        ELSE IF item.nombre # "" THEN item.nombre
        ELSE IF srv THEN "Producto desconocido" ELSE "Unknown product"

LoopCategory(item, pm) ==
    LET info == InfoOf(pm, LoopPid(item))
    IN  IF info.category # <<>> THEN info.category
        ELSE IF item.categoria # <<>> THEN item.categoria
        ELSE IF item.category # <<>> THEN item.category
        ELSE Otros

\* productSales[pid].quantity += qty; productSales[pid].revenue += lineRevenue
\* (the entries are kept in insertion order)
AddProductSale(ps, item, srv, pm) ==
    LET pid == LoopPid(item)
        Add(qty, lineRevenue) ==
            IF \E i \in 1..Len(ps) : ps[i].productId = pid
            THEN LET i == CHOOSE j \in 1..Len(ps) : ps[j].productId = pid
                 IN  [ps EXCEPT ![i].quantity = @ + qty,
                                ![i].revenue = @ + lineRevenue]
            ELSE Append(ps, [productId |-> pid, id |-> InfoOf(pm, pid).id,
                             name |-> LoopName(srv, item, pm), quantity |-> qty,
                             revenue |-> lineRevenue,
                             category |-> LoopCategory(item, pm)])
    IN  Add(LoopQty(srv, item), LoopLineRevenue(srv, item, pm))

\* categoryRevenue[category] = (categoryRevenue[category] || 0) + lineRevenue
AddCategoryRevenue(cr, category, lineRevenue) ==
    IF \E i \in 1..Len(cr) : cr[i].category = category
    THEN LET i == CHOOSE j \in 1..Len(cr) : cr[j].category = category
         IN  [cr EXCEPT ![i].revenue = @ + lineRevenue]
    ELSE Append(cr, [category |-> category, revenue |-> lineRevenue])

\* integer-like keys ("7", "101") and their values: Object.values lists them
\* first, in ascending order, before the other keys in insertion order
ArrayIndexOf(key) ==
    CASE key = "7" -> 7
      [] key = "101" -> 101
      [] key = "102" -> 102
      [] OTHER -> -1

\* Array.prototype.sort with (a, b) => b[f] - a[f]: descending and stable
InsertDesc(sorted, e, f) ==
    LET k == Cardinality({i \in 1..Len(sorted) : sorted[i][f] >= e[f]})
    IN  SubSeq(sorted, 1, k) \o <<e>> \o SubSeq(sorted, k + 1, Len(sorted))

RECURSIVE SortDesc(_, _)
SortDesc(seq, f) ==
    IF seq = <<>> THEN <<>>
    ELSE InsertDesc(SortDesc(SubSeq(seq, 1, Len(seq) - 1), f), seq[Len(seq)], f)

\* Object.values(productSales)
ObjectValues(ps) ==
    LET tagged == [i \in 1..Len(ps) |->
                      [e |-> ps[i], neg |-> 0 - ArrayIndexOf(ps[i].productId)]]
        ints == SelectSeq(tagged, LAMBDA x : x.neg <= 0)
        rest == SelectSeq(tagged, LAMBDA x : x.neg > 0)
        all == SortDesc(ints, "neg") \o rest
    IN  [i \in 1..Len(all) |-> all[i].e]

\* .slice(0, n)
Slice(seq, n) == SubSeq(seq, 1, Min(Len(seq), n))

RoundRevenue(seq) == [i \in 1..Len(seq) |-> [seq[i] EXCEPT !.revenue = roundMoney(@)]]

\* mongoose.Types.ObjectId.isValid(p.productId): the modelled ids that stand for
\* 24-digit hexadecimal strings are the _id of the products ("p9": of no
\* product) and of the users; 'unknown', numeric ids and e-mail addresses fail
IsValidObjectId(pid) == pid \in {"p1", "p2", "p9", "u1", "u2"}

\* .map((p) => ({ productId: isValid(p.productId) ? p.productId : undefined, ...,
\*               revenue: roundMoney(p.revenue) }))
TopProductRows(seq) ==
    [i \in 1..Len(seq) |->
        [seq[i] EXCEPT !.productId = IF IsValidObjectId(@) THEN @ ELSE "",
                       !.revenue = roundMoney(@)]]

\* roundMoney(total / count)
RoundMoneyQuotient(total, count) ==
    RoundDiv(total, count * (Scale \div MoneyFactor)) * (Scale \div MoneyFactor)

-----------------------------------------------------------------------------
(* buildReportData: the snapshot report *)

TopProductsLimit == 10

SnapshotStart ==
    [totalSales |-> 0, totalItemsSold |-> 0, salesToday |-> 0, salesWeek |-> 0,
     salesMonth |-> 0, ordersToday |-> 0, ordersWeek |-> 0, ordersMonth |-> 0,
     productSales |-> <<>>, categoryRevenue |-> <<>>]

isToday(orderDate, todayStart) == OnOrAfter(orderDate, todayStart)
isThisWeek(orderDate, weekStart) == OnOrAfter(orderDate, weekStart)
isThisMonth_After(orderDate, monthStart) ==
    orderDate.kind = "date" /\ orderDate.day > monthStart
isThisMonth(orderDate, monthStart) == OnOrAfter(orderDate, monthStart)

SnapshotItemStep(acc, item, srv, pm) ==
    [acc EXCEPT
        !.totalItemsSold = @ + LoopQty(srv, item),
        !.productSales = AddProductSale(@, item, srv, pm),
        !.categoryRevenue = AddCategoryRevenue(@, LoopCategory(item, pm),
                                               LoopLineRevenue(srv, item, pm))]

RECURSIVE SnapshotItems(_, _, _, _)
SnapshotItems(acc, list, srv, pm) ==
    IF list = <<>> THEN acc
    ELSE SnapshotItems(SnapshotItemStep(acc, Head(list), srv, pm), Tail(list), srv, pm)

\* one iteration of `for (const order of orders)`
SnapshotOrderStep(acc, o, srv, pm, today) ==
    LET orderDate == OrderDate(o)
        today1 == isToday(orderDate, startOfDay(today))
        week1 == isThisWeek(orderDate, startOfWeek(today))
        month1 == isThisMonth(orderDate, startOfMonth(today))
        Add(orderTotal) ==
            [acc EXCEPT
                !.totalSales = @ + orderTotal,
                !.salesToday = IF today1 THEN @ + orderTotal ELSE @,
                !.ordersToday = IF today1 THEN @ + 1 ELSE @,
                !.salesWeek = IF week1 THEN @ + orderTotal ELSE @,
                !.ordersWeek = IF week1 THEN @ + 1 ELSE @,
                !.salesMonth = IF month1 THEN @ + orderTotal ELSE @,
                !.ordersMonth = IF month1 THEN @ + 1 ELSE @]
    IN  SnapshotItems(Add(IF srv THEN ServerOrderTotal(o)
                          ELSE SnapshotOrderTotal(o, pm)),
                      OrderItems(o), srv, pm)

RECURSIVE SnapshotScan(_, _, _, _, _)
SnapshotScan(acc, os, srv, pm, today) ==
    IF os = <<>> THEN acc
    ELSE SnapshotScan(SnapshotOrderStep(acc, Head(os), srv, pm, today),
                      Tail(os), srv, pm, today)

\* the product lookup of server/routes/reports.js differs in the default name
ServerProductMap(prods) ==
    [p \in DOMAIN prods |->
        [id |-> prods[p].id,
         name |-> IF prods[p].nombre # "" THEN prods[p].nombre
                  ELSE "Producto sin nombre",
         category |-> IF prods[p].categoria # <<>> THEN prods[p].categoria ELSE Otros,
         price |-> toNumberServer(prods[p].precio, 0)]]

\* reportPayload.filters; a snapshot report has none (obj = FALSE)
NoFilters ==
    [obj |-> FALSE, status |-> "", category |-> <<>>,
     minTotal |-> [set |-> FALSE, v |-> 0], maxTotal |-> [set |-> FALSE, v |-> 0],
     groupBy |-> "", topN |-> 0, includeTaxes |-> FALSE, includeShipping |-> FALSE,
     focus |-> ""]

\* the keys a totals object can carry; `keys` lists the ones a payload has, the
\* others read 0
AllTotals == {"sales", "orders", "itemsSold", "averageOrderValue"}

\* the report both buildReportData return; the one of server/routes/reports.js
\* names the fields totalVentas (totals.sales), totalOrdenes (totals.orders),
\* totalProductosVendidos (totals.itemsSold), ventasHoy/Semana/Mes (sales.*),
\* ordenesHoy/Semana/Mes (orders.*), topProductos, ventasPorCategoria, and has
\* no averageOrderValue
ReportOf(acc, count, srv, today) ==
    [type |-> "snapshot",
     periodStart |-> startOfMonth(today),
     periodEnd |-> today,
     totals |-> [keys |-> IF srv THEN AllTotals \ {"averageOrderValue"} ELSE AllTotals,
                 sales |-> roundMoney(acc.totalSales),
                 orders |-> count,
                 itemsSold |-> acc.totalItemsSold,
                 averageOrderValue |->
                     IF count # 0 /\ ~srv
                     THEN RoundMoneyQuotient(acc.totalSales, count) ELSE 0],
     sales |-> [today |-> roundMoney(acc.salesToday),
                week |-> roundMoney(acc.salesWeek),
                month |-> roundMoney(acc.salesMonth)],
     orders |-> [today |-> acc.ordersToday, week |-> acc.ordersWeek,
                 month |-> acc.ordersMonth],
     topProducts |->
         TopProductRows(Slice(SortDesc(ObjectValues(acc.productSales), "quantity"),
                            TopProductsLimit)),
     topCustomers |-> <<>>,
     revenueByCategory |-> RoundRevenue(acc.categoryRevenue),
     timeSeries |-> <<>>,
     filters |-> NoFilters]

\* buildReportData of backend-business
buildReportData(os, prods, today) ==
    ReportOf(SnapshotScan(SnapshotStart, os, FALSE, buildProductMap(prods), today),
             Len(os), FALSE, today)

\* buildReportData of server/routes/reports.js
buildReportDataServer(os, prods, today) ==
    ReportOf(SnapshotScan(SnapshotStart, os, TRUE, ServerProductMap(prods), today),
             Len(os), TRUE, today)

-----------------------------------------------------------------------------
(* POST /reports/custom: the custom report *)

\* toLowerCase on the letters the modelled categories use
LowerCase(c) ==
    CASE c = "A" -> "a"
      [] c = "B" -> "b"
      [] c = "E" -> "e"
      [] c = "L" -> "l"
      [] OTHER -> c

\* String(value || '').trim().toLowerCase()
normalizeCategory_Trimmed(value) == TrimRight(TrimLeft(value))
normalizeCategory(value) ==
    LET t == TrimRight(TrimLeft(value))
    IN  [i \in 1..Len(t) |-> LowerCase(t[i])]

TopNDefault == 5
TopNMin == 1
TopNMax == 50

\* the request body of POST /reports/custom and of POST /projections (months,
\* forecastMonths, model): dates are Date-like fields, strings are "" when
\* absent, includeTaxes / includeShipping / save are "absent", "true", "false"
\* (the boolean) or "'false'" (the string)
EmptyBody ==
    [type |-> "", periodStart |-> NoDate, periodEnd |-> NoDate, status |-> "",
     category |-> <<>>, groupBy |-> "", topN |-> Undef, includeTaxes |-> "absent",
     includeShipping |-> "absent", minTotal |-> Undef, maxTotal |-> Undef,
     save |-> "absent", months |-> Undef, forecastMonths |-> Undef, model |-> ""]

\* body.save !== false && body.save !== 'false'
NotFalse_Boolean(flag) == flag # "false"
NotFalse(flag) == flag \notin {"false", "'false'"}

\* body.minTotal !== undefined && body.minTotal !== '' ? toNumber(body.minTotal, 0) : null
OptionalTotal(v) ==
    IF v.t # "undefined" /\ v # Str(<<>>)
    THEN [set |-> TRUE, v |-> toNumber(v, 0)]
    ELSE [set |-> FALSE, v |-> 0]

\* lines 648-661: the effective filters (the modelled bodies have no focus)
ParseFilters(body, today) ==
    [type |-> IF body.type # "" THEN body.type ELSE "custom",
     start |-> IF body.periodStart.kind # "absent" THEN body.periodStart
               ELSE OnDay(startOfMonth(today)),
     end |-> IF body.periodEnd.kind # "absent" THEN body.periodEnd ELSE OnDay(today),
     status |-> body.status,
     category |-> normalizeCategory(body.category),
     groupBy |-> IF body.groupBy \in {"day", "week", "month"} THEN body.groupBy
                 ELSE "month",
     topN |-> Min(Max(toNumber(body.topN, TopNDefault * Scale), TopNMin * Scale),
                  TopNMax * Scale),
     includeTaxes |-> NotFalse(body.includeTaxes),
     includeShipping |-> NotFalse(body.includeShipping),
     minTotal |-> OptionalTotal(body.minTotal),
     maxTotal |-> OptionalTotal(body.maxTotal),
     focus |-> CASE body.type = "users" -> "most_active"
                 [] body.type = "products" -> "top_sold"
                 [] OTHER -> "top_revenue"]

InRange(date, f) ==
    /\ f.start.kind = "date" /\ f.end.kind = "date"
    /\ OnOrAfter(date, f.start.day) /\ OnOrBefore(date, f.end.day)

\* Order.find({$and: [{$or: [{fecha: range}, {createdAt: range}]}, {estado}]})
MatchesQuery(o, f) ==
    /\ InRange(o.fecha, f) \/ InRange(o.createdAt, f)
    /\ f.status = "" \/ o.estado = f.status

\* buildUserMap: _id -> {name, email}; the name [nombre, apellido].join(' ')
\* is kept as the pair
buildUserMap(us) ==
    [u \in DOMAIN us |-> [name |-> <<us[u].nombre, us[u].apellido>>,
                          email |-> us[u].email]]

CustomStart ==
    [totalSales |-> 0, orderCount |-> 0, itemsSold |-> 0, productSales |-> <<>>,
     categoryRevenue |-> <<>>, series |-> <<>>, customers |-> <<>>]

ItemsStart(f) ==
    [itemsSoldMatch |-> 0, itemsSoldAll |-> 0, itemsRevenue |-> 0,
     matchedCategory |-> (f.category = <<>>)]

\* one iteration of the item loop: acc is the report, it the per-order counters
CustomItemStep(st, item, pm, f) ==
    LET Step(qty, lineRevenue, category) ==
            LET matchesCategory ==
                    f.category = <<>> \/ normalizeCategory(category) = f.category
                it1 == [st.it EXCEPT !.itemsSoldAll = @ + qty]
            IN  IF ~matchesCategory THEN [st EXCEPT !.it = it1]
                ELSE [acc |-> [st.acc EXCEPT
                                  !.productSales = AddProductSale(@, item, FALSE, pm),
                                  !.categoryRevenue =
                                      AddCategoryRevenue(@, category, lineRevenue)],
                      it |-> [it1 EXCEPT !.matchedCategory = TRUE,
                                         !.itemsSoldMatch = @ + qty,
                                         !.itemsRevenue = @ + lineRevenue]]
    IN  Step(LoopQty(FALSE, item), LoopLineRevenue(FALSE, item, pm),
             LoopCategory(item, pm))

RECURSIVE CustomItems(_, _, _, _)
CustomItems(st, list, pm, f) ==
    IF list = <<>> THEN st
    ELSE CustomItems(CustomItemStep(st, Head(list), pm, f), Tail(list), pm, f)

\* order.resumen?.cliente?.email || order.resumen?.cliente?.id || userIdKey
\*     || String(order.user || '')
CustomerKey(o) ==
    LET c == o.resumen.cliente
    IN  IF o.resumen.obj /\ c.obj /\ c.email # "" THEN c.email
        ELSE IF o.resumen.obj /\ c.obj /\ c.id # "" THEN c.id
        ELSE IF o.userId # "" THEN o.userId
        ELSE o.user

AddCustomer(cs, o, um, orderRevenue) ==
    LET key == CustomerKey(o)
        c == o.resumen.cliente
        has == o.resumen.obj /\ c.obj
        known == o.userId # "" /\ o.userId \in DOMAIN um
    IN  IF key = "" THEN cs
        ELSE IF \E i \in 1..Len(cs) : cs[i].key = key
        THEN LET i == CHOOSE j \in 1..Len(cs) : cs[j].key = key
             IN  [cs EXCEPT ![i].orders = @ + 1, ![i].spent = @ + orderRevenue]
        ELSE Append(cs,
                [key |-> key,
                 name |-> IF has /\ c.nombre # "" THEN <<c.nombre, c.apellido>>
                          ELSE IF known THEN um[o.userId].name ELSE <<"", "">>,
                 email |-> IF has /\ c.email # "" THEN c.email
                           ELSE IF known THEN um[o.userId].email ELSE "",
                 orders |-> 1, spent |-> orderRevenue])

AddToSeries(series, key, orderRevenue) ==
    IF \E i \in 1..Len(series) : series[i].period = key
    THEN LET i == CHOOSE j \in 1..Len(series) : series[j].period = key
         IN  [series EXCEPT ![i].sales = @ + orderRevenue, ![i].orders = @ + 1]
    ELSE Append(series, [period |-> key, sales |-> orderRevenue, orders |-> 1])

\* the period key of an order date; an Invalid Date gives the key "NaN-NaN"
PeriodKeyOf(date, groupBy) ==
    IF date.kind = "date" THEN getPeriodKey(date.day, groupBy) ELSE <<0, 0, 0>>

\* lines 726-773: what a scanned order with its item counters adds
CountOrder(acc, it, o, pm, um, f) ==
    LET Count(orderRevenue) ==
            IF ~it.matchedCategory THEN acc
            ELSE IF f.minTotal.set /\ orderRevenue < f.minTotal.v THEN acc
            ELSE IF f.maxTotal.set /\ orderRevenue > f.maxTotal.v THEN acc
            ELSE [acc EXCEPT
                    !.totalSales = @ + orderRevenue,
                    !.orderCount = @ + 1,
                    !.itemsSold = @ + (IF f.category # <<>> THEN it.itemsSoldMatch
                                       ELSE it.itemsSoldAll),
                    !.customers = AddCustomer(@, o, um, orderRevenue),
                    !.series = AddToSeries(@, PeriodKeyOf(OrderDate(o), f.groupBy),
                                           orderRevenue)]
    IN  Count(IF f.category # <<>> THEN it.itemsRevenue
              ELSE CustomComputedTotal(o, pm, f.includeTaxes, f.includeShipping))

\* one iteration of `for (const order of orders)`
CustomOrderStep(acc, o, pm, um, f) ==
    LET Account(st) == CountOrder(st.acc, st.it, o, pm, um, f)
    IN  Account(CustomItems([acc |-> acc, it |-> ItemsStart(f)], OrderItems(o), pm, f))

RECURSIVE CustomScan(_, _, _, _, _)
CustomScan(acc, os, pm, um, f) ==
    IF os = <<>> THEN acc
    ELSE CustomScan(CustomOrderStep(acc, Head(os), pm, um, f), Tail(os), pm, um, f)

\* ascending by period key
InsertByPeriod(sorted, e) ==
    LET k == Cardinality({i \in 1..Len(sorted) : ~KeyLess(e.period, sorted[i].period)})
    IN  SubSeq(sorted, 1, k) \o <<e>> \o SubSeq(sorted, k + 1, Len(sorted))

RECURSIVE SortByPeriod(_)
SortByPeriod(seq) ==
    IF seq = <<>> THEN <<>>
    ELSE InsertByPeriod(SortByPeriod(SubSeq(seq, 1, Len(seq) - 1)), seq[Len(seq)])

\* .slice(0, topN): the end index is truncated to an integer
SliceTopN(seq, topN) == Slice(seq, topN \div Scale)

\* lines 776-851: the payload
CustomPayload(acc, f) ==
    LET topProducts ==
            RoundRevenue(SliceTopN(SortDesc(ObjectValues(acc.productSales), "revenue"),
                                   f.topN))
        topCustomers ==
            LET sorted == SliceTopN(SortDesc(acc.customers, "spent"), f.topN)
            IN  [i \in 1..Len(sorted) |->
                    [name |-> sorted[i].name, email |-> sorted[i].email,
                     orders |-> sorted[i].orders, spent |-> roundMoney(sorted[i].spent)]]
        timeSeries ==
            LET sorted == SortByPeriod(acc.series)
            IN  [i \in 1..Len(sorted) |-> [sorted[i] EXCEPT !.sales = roundMoney(@)]]
        revenueByCategory == RoundRevenue(acc.categoryRevenue)
    IN  [type |-> f.type,
         periodStart |-> IF f.start.kind = "date" THEN f.start.day ELSE 0,
         periodEnd |-> IF f.end.kind = "date" THEN f.end.day ELSE 0,
         totals |-> [keys |-> CASE f.type = "products" -> {"itemsSold", "sales"}
                                   [] f.type = "users" -> {"orders", "sales"}
                                   [] OTHER -> AllTotals,
                     sales |-> roundMoney(acc.totalSales),
                     orders |-> IF f.type = "products" THEN 0 ELSE acc.orderCount,
                     itemsSold |-> IF f.type = "users" THEN 0 ELSE acc.itemsSold,
                     averageOrderValue |->
                         IF acc.orderCount # 0 /\ f.type \notin {"products", "users"}
                         THEN RoundMoneyQuotient(acc.totalSales, acc.orderCount)
                         ELSE 0],
         sales |-> [today |-> 0, week |-> 0, month |-> 0],
         orders |-> [today |-> 0, week |-> 0, month |-> 0],
         topProducts |-> IF f.type = "users" THEN <<>> ELSE topProducts,
         topCustomers |-> IF f.type \in {"products", "sales"} THEN <<>>
                          ELSE topCustomers,
         revenueByCategory |-> IF f.type \in {"users", "sales"} THEN <<>>
                               ELSE revenueByCategory,
         timeSeries |-> IF f.type \in {"products", "users"} THEN <<>>
                        ELSE timeSeries,
         filters |-> [obj |-> TRUE,
                      status |-> IF f.status # "" THEN f.status ELSE "all",
                      category |-> f.category, minTotal |-> f.minTotal,
                      maxTotal |-> f.maxTotal, groupBy |-> f.groupBy, topN |-> f.topN,
                      includeTaxes |-> f.includeTaxes,
                      includeShipping |-> f.includeShipping, focus |-> f.focus]]

\* the report of POST /reports/custom for a body
customReport(os, prods, us, body, today) ==
    LET Build(f) ==
            CustomPayload(CustomScan(CustomStart,
                                     SelectSeq(os, LAMBDA o : MatchesQuery(o, f)),
                                     buildProductMap(prods), buildUserMap(us), f), f)
    IN  Build(ParseFilters(body, today))

-----------------------------------------------------------------------------
(* POST /projections: buildFinancialProjection *)

\* an awaited read of one of the stores in `reads` rejects: the handler's
\* try block is left for its catch
Rejects_UsersCaught(fault, reads) == fault \in reads \ {"users"}
Rejects(fault, reads) == fault \in reads

\* `for (const item of items)` reads a property of every entry: a TypeError
\* when an entry is null
ItemsThrow(list) == \E i \in 1..Len(list) : ~list[i].obj

\* the item loop runs for every order of the scan
ScanThrows(os) == \E i \in 1..Len(os) : ItemsThrow(OrderItems(os[i]))

\* the first day of the month k months after the month (y, m) that starts on
\* day `first`
RECURSIVE MonthShift(_, _, _, _)
MonthShift(first, y, m, k) ==
    IF k = 0 THEN first
    ELSE IF k > 0
    THEN MonthShift(first + DaysInMonth(y, m), IF m = 12 THEN y + 1 ELSE y,
                    IF m = 12 THEN 1 ELSE m + 1, k - 1)
    ELSE MonthShift(first - DaysInMonth(IF m = 1 THEN y - 1 ELSE y,
                                        IF m = 1 THEN 12 ELSE m - 1),
                    IF m = 1 THEN y - 1 ELSE y, IF m = 1 THEN 12 ELSE m - 1, k + 1)

\* d.setMonth(d.getMonth() + k): the day of the month is kept and overflows
\* into the next month
setMonth(day, k) ==
    MonthShift(startOfMonth(day), Civil(day).y, Civil(day).m, k) + Civil(day).d - 1

\* the integer part of a number, as setMonth takes it
Trunc(x) == IF x >= 0 THEN x \div Scale ELSE 0 - ((0 - x) \div Scale)

\* lines 106-124: the start of the series
SeriesStart(os, months, today) ==
    LET dated == {i \in 1..Len(os) : OrderDate(os[i]).kind = "date"}
    IN  IF dated # {}
        THEN startOfMonth(CHOOSE d \in {OrderDate(os[i]).day : i \in dated} :
                              \A i \in dated : d <= OrderDate(os[i]).day)
        ELSE setMonth(today, 0 - Trunc(months))

\* lines 127-162: the monthMap, in insertion order
RECURSIVE MonthScan(_, _, _)
MonthScan(mm, os, start) ==
    IF os = <<>> THEN mm
    ELSE IF ~OnOrAfter(OrderDate(Head(os)), start) THEN MonthScan(mm, Tail(os), start)
    ELSE MonthScan(AddToSeries(mm, formatMonthKey(OrderDate(Head(os)).day),
                               ProjectionOrderTotal(Head(os))),
                   Tail(os), start)

\* computeOrderTotalFromItems is reached by a counted order whose total is
\* still 0 after the components
ProjectionThrows(os, start) ==
    \E i \in 1..Len(os) :
        /\ OnOrAfter(OrderDate(os[i]), start)
        /\ ComponentTotal(os[i], ExplicitTotal(os[i])) = 0
        /\ ItemsThrow(OrderItems(os[i]))

\* lines 164-171: the series, sorted by month
ProjectionSeries(mm) ==
    LET Rows(sorted) ==
            [i \in 1..Len(sorted) |->
                [month |-> sorted[i].period,
                 total |-> roundMoney(sorted[i].sales),
                 orders |-> sorted[i].orders,
                 avgOrderValue |-> RoundMoneyQuotient(sorted[i].sales,
                                                      sorted[i].orders)]]
    IN  Rows(SortByPeriod(mm))

EmptyProjection ==
    [full |-> FALSE, months |-> 0, forecastMonths |-> 0, model |-> "",
     series |-> <<>>, projectionSales |-> <<>>, projectionOrders |-> <<>>,
     projectionAvgOrderValue |-> <<>>, avgChange |-> 0, avgOrderChange |-> 0,
     lastMonth |-> [total |-> 0, orders |-> 0, avgOrderValue |-> 0]]

\* lines 177-231: the forecast of a non-empty series; k changes, whose sums are
\* dTotal and dOrders
Forecast(series, months, forecastMonths, model, today) ==
    LET n == Len(series)
        k == IF n > 1 THEN n - 1 ELSE 1
        dTotal == series[n].total - series[1].total
        dOrders == series[n].orders - series[1].orders
        lastTotal == series[n].total
        lastOrders == series[n].orders
        all == 1..n
        sumTotal == SumIdx([i \in all |-> series[i].total], all)
        sumOrders == SumIdx([i \in all |-> series[i].orders], all)
        ahead == 1..(IF forecastMonths >= Scale THEN forecastMonths \div Scale ELSE 0)
        projectedTotal(i) ==
            IF model = "average" THEN Max(0, RoundMoneyQuotient(sumTotal, n))
            ELSE Max(0, RoundMoneyQuotient(lastTotal * k + Max(0, dTotal) * i, k))
        projectedOrders(i) ==
            IF model = "average" THEN Max(0, RoundDiv(sumOrders, n))
            ELSE Max(0, RoundDiv(lastOrders * k + Max(0, dOrders) * i, k))
    IN  [full |-> TRUE, months |-> months, forecastMonths |-> forecastMonths,
         model |-> model,
         series |-> series,
         projectionSales |->
             [i \in ahead |-> [month |-> formatMonthKey(setMonth(today, i)),
                               projectedTotal |-> projectedTotal(i)]],
         projectionOrders |->
             [i \in ahead |-> [month |-> formatMonthKey(setMonth(today, i)),
                               projectedOrders |-> projectedOrders(i)]],
         projectionAvgOrderValue |->
             [i \in ahead |->
                 [month |-> formatMonthKey(setMonth(today, i)),
                  projectedAvgOrderValue |->
                      IF projectedOrders(i) # 0
                      THEN RoundMoneyQuotient(projectedTotal(i), projectedOrders(i))
                      ELSE 0]],
         avgChange |-> RoundMoneyQuotient(dTotal, k),
         avgOrderChange |-> RoundMoneyQuotient(dOrders * Scale, k),
         lastMonth |-> [total |-> roundMoney(lastTotal), orders |-> lastOrders,
                        avgOrderValue |-> IF lastOrders # 0
                                          THEN RoundMoneyQuotient(lastTotal, lastOrders)
                                          ELSE 0]]

\* buildFinancialProjection({months, forecastMonths, model})
buildFinancialProjection(os, months, forecastMonths, model, today) ==
    LET Project(series) ==
            IF series = <<>>
            THEN [EmptyProjection EXCEPT !.months = months,
                                         !.forecastMonths = forecastMonths,
                                         !.model = model]
            ELSE Forecast(series, months, forecastMonths, model, today)
    IN  Project(ProjectionSeries(MonthScan(<<>>, os, SeriesStart(os, months, today))))

-----------------------------------------------------------------------------
(* One order through each aggregator *)

ProductIds == {"p1", "p2"}

Catalog ==
    [p \in ProductIds |->
        IF p = "p1"
        THEN [id |-> "101", nombre |-> "Leche", categoria |-> <<"L", "a">>,
              precio |-> Cents(250), descuento |-> N(10), stock |-> N(3)]
        ELSE [id |-> "102", nombre |-> "", categoria |-> <<>>,
              precio |-> N(0), descuento |-> N(0), stock |-> N(2)]]

ItemSamples ==
    { [EmptyItem EXCEPT !.cantidad = N(3), !.precio = N(10)],
      [EmptyItem EXCEPT !.productId = "p1", !.cantidad = N(2)],
      [EmptyItem EXCEPT !.qty = N(2), !.precioUnitario = N(4), !.total = N(8)],
      [EmptyItem EXCEPT !.productId = "p2", !.quantity = N(1),
                        !.unitPrice = Num(2505), !.lineTotal = N(0)],
      [EmptyItem EXCEPT !.productId = "p1", !.cantidad = N(1),
                        !.subtotal = Cents(-500)] }

RECURSIVE SeqsUpTo(_, _)
SeqsUpTo(S, k) ==
    IF k = 0 THEN {<<>>}
    ELSE LET shorter == SeqsUpTo(S, k - 1)
         IN  shorter \cup {Append(q, x) : q \in shorter, x \in S}

TotalValues == {Undef, N(0), N(100), Cents(-500)}

\* <<subtotal, iva, envio, discount>>
ComponentValues ==
    { <<Undef, Undef, Undef, Undef>>,
      <<N(50), Cents(750), Cents(350), N(5)>>,
      <<N(0), Undef, Undef, N(5)>> }

Places == {"resumen.totales", "resumen", "totales", "order"}

\* an order whose totals live at `place`
OrderAt(place, tot, c, list) ==
    LET withItems == [EmptyOrder EXCEPT !.items = ItemArray(list)]
        res == [NoResumen EXCEPT !.obj = TRUE, !.productos = ItemArray(list)]
    IN  CASE place = "resumen.totales" ->
                [withItems EXCEPT !.resumen =
                    [res EXCEPT !.totales = MkTotals(c[1], c[2], c[3], c[4], tot)]]
          [] place = "resumen" ->
                [withItems EXCEPT !.resumen =
                    [res EXCEPT !.subtotal = c[1], !.iva = c[2], !.envio = c[3],
                                !.discount = c[4], !.total = tot]]
          [] place = "totales" ->
                [withItems EXCEPT !.totales = MkTotals(c[1], c[2], c[3], c[4], tot)]
          [] OTHER -> [withItems EXCEPT !.total = tot]

OrderInputs ==
    {OrderAt(place, tot, c, list) :
        place \in Places, tot \in TotalValues, c \in ComponentValues,
        list \in SeqsUpTo(ItemSamples, MaxItems)}

NotResolved == [done |-> FALSE, value |-> 0]
CustomNotResolved ==
    [done |-> FALSE, includeTaxes |-> TRUE, includeShipping |-> TRUE, value |-> 0]
RevNone ==
    [snapshot |-> NotResolved, projection |-> NotResolved, server |-> NotResolved,
     custom |-> CustomNotResolved]

OrdInit ==
    /\ ord \in OrderInputs
    /\ rev = RevNone

OrdIdle ==
    /\ ord = EmptyOrder
    /\ rev = RevNone

\* buildReportData of backend-business reaches ord in its scan
ResolveSnapshot ==
    /\ ~rev.snapshot.done
    /\ rev' = [rev EXCEPT !.snapshot =
                 [done |-> TRUE,
                  value |-> SnapshotOrderTotal(ord, buildProductMap(products))]]
    /\ UNCHANGED <<extVars, ord, products, users, numVars, repVars>>

\* buildFinancialProjection reaches ord in its scan
ResolveProjection ==
    /\ ~rev.projection.done
    /\ rev' = [rev EXCEPT !.projection =
                 [done |-> TRUE, value |-> ProjectionOrderTotal(ord)]]
    /\ UNCHANGED <<extVars, ord, products, users, numVars, repVars>>

\* buildReportData of server/routes/reports.js reaches ord in its scan
ResolveServer ==
    /\ ~rev.server.done
    /\ rev' = [rev EXCEPT !.server =
                 [done |-> TRUE, value |-> ServerOrderTotal(ord)]]
    /\ UNCHANGED <<extVars, ord, products, users, numVars, repVars>>

\* POST /reports/custom without category filter reaches ord in its scan
ResolveCustom(includeTaxes, includeShipping) ==
    /\ ~rev.custom.done
    /\ rev' = [rev EXCEPT !.custom =
                 [done |-> TRUE, includeTaxes |-> includeTaxes,
                  includeShipping |-> includeShipping,
                  value |-> CustomComputedTotal(ord, buildProductMap(products),
                                                includeTaxes, includeShipping)]]
    /\ UNCHANGED <<extVars, ord, products, users, numVars, repVars>>

-----------------------------------------------------------------------------
(* The report requests over a collection of orders *)

UserIds == {"u1", "u2"}

Registered ==
    [u \in UserIds |->
        IF u = "u1"
        THEN [id |-> "1", nombre |-> "Ana", apellido |-> "Paz", email |-> "a@x",
              orders |-> <<>>, cart |-> <<"p1">>]
        ELSE [id |-> "2", nombre |-> "Luis", apellido |-> "", email |-> "l@x",
              orders |-> <<>>, cart |-> <<>>]]

LineLeche ==
    [EmptyItem EXCEPT !.productId = "p1", !.cantidad = N(2), !.unitPrice = N(42),
                      !.lineTotal = N(84), !.subtotal = N(84), !.nombre = "Leche",
                      !.categoria = <<"L", "a">>]
LineBebida ==
    [EmptyItem EXCEPT !.cantidad = N(1), !.precio = Cents(5050),
                      !.category = <<"B", "e">>]
LineLegacy ==
    [EmptyItem EXCEPT !.cantidad = N(3), !.precio = N(10),
                      !.categoria = <<" ", "L", "A", " ">>]
LineOtros ==
    [EmptyItem EXCEPT !.productId = "p2", !.quantity = N(1), !.unitPrice = Num(2505)]

\* two legacy lines identified by a numeric product id only
LineSal ==
    [EmptyItem EXCEPT !.id = "102", !.cantidad = N(1), !.precio = N(1),
                      !.nombre = "Sal"]
LinePan ==
    [EmptyItem EXCEPT !.id = "101", !.cantidad = N(1), !.precio = N(3),
                      !.nombre = "Pan"]

\* an order as POST /reports writes it: total 100.00
Order100 ==
    [EmptyOrder EXCEPT
        !.resumen = [NoResumen EXCEPT
            !.obj = TRUE,
            !.cliente = [obj |-> TRUE, email |-> "a@x", id |-> "u1",
                         nombre |-> "Ana", apellido |-> "Paz"],
            !.productos = ItemArray(<<LineLeche>>),
            !.totales = MkTotals(N(84), Cents(1260), Cents(340), N(0), N(100))],
        !.items = ItemArray(<<LineLeche>>),
        !.estado = "confirmado", !.userId = "u1"]

\* total 50.50, one line outside the catalog
Order50 ==
    [EmptyOrder EXCEPT
        !.resumen = [NoResumen EXCEPT
            !.obj = TRUE,
            !.productos = ItemArray(<<LineBebida>>),
            !.totales = MkTotals(Cents(5050), Undef, Undef, Undef, Cents(5050))],
        !.estado = "confirmado", !.userId = "u2"]

\* a legacy order without totals: 30.00 + 2.51
OrderLegacy ==
    [EmptyOrder EXCEPT !.items = ItemArray(<<LineLegacy, LineOtros>>),
                       !.estado = "pendiente", !.user = "u1"]

\* a legacy order with a top-level total of 20.006 and no items
OrderBare == [EmptyOrder EXCEPT !.total = Num(20006), !.estado = "pendiente"]

\* a legacy order of two lines with numeric ids, "102" before "101": 1.00 + 3.00
OrderNumeric ==
    [EmptyOrder EXCEPT !.items = ItemArray(<<LineSal, LinePan>>), !.total = N(4),
                       !.estado = "pendiente", !.user = "u2"]

\* a legacy order with a null entry in its items
OrderNull ==
    [EmptyOrder EXCEPT !.items = ItemArray(<<LineBebida, NullItem>>), !.total = N(10),
                       !.estado = "pendiente"]

\* a legacy order with a negative total
OrderRefund == [EmptyOrder EXCEPT !.total = Cents(-500), !.estado = "devuelto"]

\* a legacy order without fecha and createdAt
OrderUndated == [EmptyOrder EXCEPT !.total = N(7), !.estado = "pendiente"]

OrderDays == {30, 31, 45}
NowDays == {31, 45}
\* the last day of a month: 2024-01-31
MonthEndDays == {30}

OrderSamples ==
    {[b EXCEPT !.fecha = OnDay(d)] : b \in {Order100, Order50}, d \in OrderDays}
    \cup {[b EXCEPT !.fecha = OnDay(d)] :
             b \in {OrderLegacy, OrderBare}, d \in OrderDays \ {30}}
    \cup {[Order50 EXCEPT !.fecha = BadDate],
          [OrderLegacy EXCEPT !.createdAt = OnDay(45)],
          [OrderNumeric EXCEPT !.fecha = OnDay(45)],
          [OrderNull EXCEPT !.fecha = OnDay(45)],
          [OrderRefund EXCEPT !.fecha = OnDay(31)],
          OrderUndated}

BodySamples ==
    { EmptyBody,
      [EmptyBody EXCEPT !.category = <<"L", "A">>, !.save = "false"],
      [EmptyBody EXCEPT !.category = <<"b", "e", " ">>, !.type = "products",
                        !.topN = Str(<<"x">>)],
      [EmptyBody EXCEPT !.minTotal = N(100)],
      [EmptyBody EXCEPT !.maxTotal = Str(<<"4", "0">>), !.groupBy = "day"],
      [EmptyBody EXCEPT !.category = <<"l", "a">>, !.minTotal = N(50),
                        !.type = "sales"],
      [EmptyBody EXCEPT !.includeTaxes = "false", !.includeShipping = "'false'",
                        !.status = "confirmado", !.topN = N(1)],
      [EmptyBody EXCEPT !.periodStart = OnDay(30), !.periodEnd = OnDay(31),
                        !.groupBy = "week", !.type = "users"],
      [EmptyBody EXCEPT !.type = "inventory", !.groupBy = "year", !.topN = N(99),
                        !.save = "'false'"] }

\* the bodies of POST /projections
ProjectionBodies ==
    { EmptyBody,
      [EmptyBody EXCEPT !.model = "average"],
      [EmptyBody EXCEPT !.model = "average", !.forecastMonths = N(2),
                        !.save = "false"],
      [EmptyBody EXCEPT !.forecastMonths = Num(2500)],
      [EmptyBody EXCEPT !.model = "cubic", !.forecastMonths = Str(<<"x">>)],
      [EmptyBody EXCEPT !.months = N(3), !.forecastMonths = N(-1),
                        !.save = "'false'"] }

\* body.save of POST /reports
SaveSamples == {"absent", "false", "'false'"}

\* an entry of body.products
EmptyEntry == [productId |-> "", id |-> "", quantity |-> Undef, cantidad |-> Undef]

\* the body of POST /reports: costo is shipping.costo ?? shipping.cost
NoRequest ==
    [userId |-> "", products |-> <<>>, save |-> "absent", costo |-> Undef,
     discount |-> Undef]

EmptyReport ==
    [type |-> "", periodStart |-> 0, periodEnd |-> 0,
     totals |-> [keys |-> {}, sales |-> 0, orders |-> 0, itemsSold |-> 0,
                 averageOrderValue |-> 0],
     sales |-> [today |-> 0, week |-> 0, month |-> 0],
     orders |-> [today |-> 0, week |-> 0, month |-> 0],
     topProducts |-> <<>>, topCustomers |-> <<>>, revenueByCategory |-> <<>>,
     timeSeries |-> <<>>, filters |-> NoFilters]

\* fault: the read of the request that failed ("none", "orders", "products" or
\* "users")
NoResponse ==
    [kind |-> "none", status |-> 0, body |-> EmptyBody, request |-> NoRequest,
     report |-> EmptyReport, projection |-> EmptyProjection, fault |-> "none"]

ReportInit ==
    /\ \/ /\ orders \in SeqsUpTo(OrderSamples, MaxOrders)
          /\ now \in NowDays
       \/ /\ orders \in SeqsUpTo({[Order100 EXCEPT !.fecha = OnDay(d)] :
                                      d \in MonthEndDays}, MaxOrders)
          /\ now \in MonthEndDays
    /\ reports = <<>>
    /\ projections = <<>>
    /\ response = NoResponse

ReportIdle ==
    /\ orders = <<>>
    /\ reports = <<>>
    /\ projections = <<>>
    /\ now = 45
    /\ response = NoResponse

\* POST /reports of backend-business without an order payload; save is
\* body.save
PostSnapshot(save, fault) ==
    LET Respond(status, report) ==
            /\ response' = [kind |-> "snapshot", status |-> status, body |-> EmptyBody,
                            request |-> [NoRequest EXCEPT !.save = save],
                            report |-> report, projection |-> EmptyProjection,
                            fault |-> fault]
            /\ reports' = IF status = 200 /\ NotFalse(save)
                          THEN Append(reports, [type |-> "snapshot", payload |-> report])
                          ELSE reports
    IN  /\ response.kind = "none"
        /\ fault \in {"none", "orders", "products"}
        /\ IF Rejects(fault, {"orders", "products"}) \/ ScanThrows(orders)
           THEN Respond(500, EmptyReport)
           ELSE Respond(200, buildReportData(orders, products, now))
        /\ UNCHANGED <<extVars, orders, projections, now, users, products, numVars, ordVars>>

\* GET /reports?latest=true of server/routes/reports.js
GetLatestServer ==
    LET Respond(status, report) ==
            response' = [kind |-> "serverSnapshot", status |-> status,
                         body |-> EmptyBody, request |-> NoRequest, report |-> report,
                         projection |-> EmptyProjection, fault |-> "none"]
    IN  /\ response.kind = "none"
        /\ IF ScanThrows(orders) THEN Respond(500, EmptyReport)
           ELSE Respond(200, buildReportDataServer(orders, products, now))
        /\ UNCHANGED <<extVars, orders, reports, projections, now, users, products, numVars,
                       ordVars>>

\* POST /reports/custom
PostCustom(body, fault) ==
    LET Respond(status, report) ==
            /\ response' = [kind |-> "custom", status |-> status, body |-> body,
                            request |-> NoRequest, report |-> report,
                            projection |-> EmptyProjection, fault |-> fault]
            /\ reports' = IF status = 200 /\ NotFalse(body.save)
                          THEN Append(reports, [type |-> report.type,
                                                payload |-> report])
                          ELSE reports
        Found(f) == SelectSeq(orders, LAMBDA o : MatchesQuery(o, f))
    IN  /\ response.kind = "none"
        /\ fault \in {"none", "orders", "products", "users"}
        /\ IF \/ Rejects(fault, {"orders", "products", "users"})
              \/ ScanThrows(Found(ParseFilters(body, now)))
           THEN Respond(500, EmptyReport)
           ELSE Respond(200, customReport(orders, products, users, body, now))
        /\ UNCHANGED <<extVars, orders, projections, now, users, products, numVars, ordVars>>

\* POST /projections
PostProjection(body, fault) ==
    LET months == toNumber(body.months, 6 * Scale)
        forecastMonths == toNumber(body.forecastMonths, 6 * Scale)
        model == IF body.model # "" THEN body.model ELSE "linear"
        Respond(status, data) ==
            /\ response' = [kind |-> "projection", status |-> status, body |-> body,
                            request |-> NoRequest, report |-> EmptyReport,
                            projection |-> data, fault |-> fault]
            /\ projections' = IF status = 200 /\ NotFalse(body.save)
                              THEN Append(projections, [type |-> "financial",
                                                        payload |-> data])
                              ELSE projections
    IN  /\ response.kind = "none"
        /\ fault \in {"none", "orders"}
        /\ IF \/ Rejects(fault, {"orders"})
              \/ ProjectionThrows(orders, SeriesStart(orders, months, now))
           THEN Respond(500, EmptyProjection)
           ELSE Respond(200, buildFinancialProjection(orders, months, forecastMonths,
                                                      model, now))
        /\ UNCHANGED <<extVars, orders, reports, now, users, products, numVars, ordVars>>

-----------------------------------------------------------------------------
(* POST /reports with an order payload: the order-creating transaction *)

\* User.findById(idStr), then User.findOne({$or: [{id}, {email}]}): the _id of
\* the user found, "" for null
findUserByIdentifier(us, identifier) ==
    IF identifier = "" THEN ""
    ELSE IF IsValidObjectId(identifier) /\ identifier \in DOMAIN us THEN identifier
    ELSE IF \E u \in DOMAIN us : us[u].id = identifier \/ us[u].email = identifier
    THEN CHOOSE u \in DOMAIN us : us[u].id = identifier \/ us[u].email = identifier
    ELSE ""

\* Product.findById(idStr), then Product.findOne({id: idStr}) and
\* Product.findOne({id: Number(idStr)}): the _id of the product found, "" for null
findProductByIdentifier(prods, identifier) ==
    IF identifier = "" THEN ""
    ELSE IF IsValidObjectId(identifier) /\ identifier \in DOMAIN prods THEN identifier
    ELSE IF \E p \in DOMAIN prods : prods[p].id = identifier
    THEN CHOOSE p \in DOMAIN prods : prods[p].id = identifier
    ELSE ""

\* Math.floor
Floor(x) == (x \div Scale) * Scale

\* item.productId || item.id || item._id
EntryId(item) == IF item.productId # "" THEN item.productId ELSE item.id

\* Math.floor(toNumber(item.quantity ?? item.cantidad, 0))
EntryQuantity(srv, item) ==
    Floor(ToNum(srv, Coalesce(<<item.quantity, item.cantidad>>), 0))

\* the validation loop: status 400 on an entry without a product id or with a
\* quantity below 1
RECURSIVE Sanitize(_, _)
Sanitize(srv, raw) ==
    IF raw = <<>> THEN [status |-> 0, items |-> <<>>]
    ELSE LET productId == EntryId(Head(raw))
             Keep(quantity, rest) ==
                 IF productId = "" \/ quantity <= 0
                 THEN [status |-> 400, items |-> <<>>]
                 ELSE IF rest.status # 0 THEN rest
                 ELSE [status |-> 0,
                       items |-> <<[productId |-> productId, quantity |-> quantity]>>
                                     \o rest.items]
         IN  Keep(EntryQuantity(srv, Head(raw)), Sanitize(srv, Tail(raw)))

\* roundMoney(num / den) for den > 0
RoundMoneyRatio(num, den) ==
    RoundDiv(num, den * (Scale \div MoneyFactor)) * (Scale \div MoneyFactor)

\* TAX_RATE = 0.15, in percent
TaxRatePercent == 15

TxStart(db) == [db |-> db, orderItems |-> <<>>, subtotal |-> 0, status |-> 0]

\* one iteration of `for (const item of sanitizedItems)` inside the transaction
TxItemStep(st, item, srv) ==
    LET p == findProductByIdentifier(st.db.products, item.productId)
        product == st.db.products[p]
        Sell(available, lineTotal, unitPrice) ==
            IF available < item.quantity THEN [st EXCEPT !.status = 400]
            ELSE [db |-> [st.db EXCEPT
                             !.products[p].stock = Num(available - item.quantity)],
                  orderItems |->
                      Append(st.orderItems,
                             [EmptyItem EXCEPT
                                 !.productId = p, !.id = product.id,
                                 !.nombre = product.nombre,
                                 !.categoria = IF product.categoria # <<>>
                                               THEN product.categoria ELSE Otros,
                                 !.cantidad = Num(item.quantity),
                                 !.unitPrice = Num(unitPrice),
                                 !.lineTotal = Num(lineTotal),
                                 !.subtotal = Num(lineTotal)]),
                  subtotal |-> st.subtotal + lineTotal,
                  status |-> 0]
        Price(unitPrice) ==
            Sell(ToNum(srv, product.stock, 0),
                 RoundMoneyProduct(unitPrice, item.quantity), unitPrice)
    IN  IF p = "" THEN [st EXCEPT !.status = 404]
        ELSE Price(RoundMoneyRatio(ToNum(srv, product.precio, 0)
                                       * (100 * Scale - ToNum(srv, product.descuento, 0)),
                                   100 * Scale))

\* the loop stops at the first throw
RECURSIVE TxItems(_, _, _)
TxItems(st, items, srv) ==
    IF items = <<>> \/ st.status # 0 THEN st
    ELSE TxItems(TxItemStep(st, Head(items), srv), Tail(items), srv)

\* the rest of the callback: totals, order.save, the user's orders and cart
TxFinish(st, req, uid, srv, today) ==
    LET user == st.db.users[uid]
        Save(resumen) ==
            [st EXCEPT
                !.db.orders =
                    Append(@, [EmptyOrder EXCEPT
                                  !.userId = uid, !.items = ItemArray(st.orderItems),
                                  !.resumen = resumen, !.estado = "confirmado",
                                  !.fecha = OnDay(today)]),
                !.db.users[uid].orders =
                    Append(@, [orderId |-> Len(st.db.orders) + 1, fecha |-> today,
                               resumen |-> resumen]),
                !.db.users[uid].cart = <<>>]
        Totals(shippingCost, discount, taxes) ==
            Save([NoResumen EXCEPT
                     !.obj = TRUE,
                     !.cliente = [obj |-> TRUE, email |-> user.email, id |-> uid,
                                  nombre |-> user.nombre, apellido |-> user.apellido],
                     !.productos = ItemArray(st.orderItems),
                     !.totales =
                         MkTotals(Num(roundMoney(st.subtotal)), Num(taxes),
                                  Num(shippingCost), Num(discount),
                                  Num(roundMoney(Max(0, st.subtotal + taxes
                                                        + shippingCost - discount))))])
    IN  Totals(roundMoney(ToNum(srv, Coalesce(<<req.costo, Cents(350)>>), 0)),
               roundMoney(Max(0, ToNum(srv, Coalesce(<<req.discount, N(0)>>), 0))),
               RoundMoneyRatio(st.subtotal * TaxRatePercent, 100))

\* the callback of session.withTransaction
TxCallback(db, items, req, uid, srv, today) ==
    LET Finish(st) == IF st.status # 0 THEN st ELSE TxFinish(st, req, uid, srv, today)
    IN  Finish(TxItems(TxStart(db), items, srv))

withTransaction_Unsessioned(pre, run) == run.db
\* session.withTransaction: the writes of the callback are committed when it
\* returns and discarded when it throws
withTransaction(pre, run) == IF run.status = 0 THEN run.db ELSE pre

\* the handler up to the report: status 0 when no response has been sent yet
CreateOrder(db, req, srv, today) ==
    LET Commit(run) == [status |-> run.status, db |-> withTransaction(db, run)]
        Create(uid, sane) ==
            IF req.userId = "" \/ req.products = <<>> THEN [status |-> 0, db |-> db]
            ELSE IF uid = "" THEN [status |-> 404, db |-> db]
            ELSE IF sane.status # 0 THEN [status |-> sane.status, db |-> db]
            ELSE Commit(TxCallback(db, sane.items, req, uid, srv, today))
    IN  Create(findUserByIdentifier(db.users, req.userId),
               Sanitize(srv, req.products))

EntryLeche == [EmptyEntry EXCEPT !.productId = "p1", !.quantity = N(2)]
EntryByCode == [EmptyEntry EXCEPT !.id = "101", !.cantidad = N(1)]
EntryOtros == [EmptyEntry EXCEPT !.productId = "p2", !.quantity = N(1)]
EntryGone == [EmptyEntry EXCEPT !.productId = "p9", !.quantity = N(1)]
EntryNone == [EmptyEntry EXCEPT !.productId = "p2", !.quantity = N(0)]
EntryHalf == [EmptyEntry EXCEPT !.productId = "p1", !.quantity = Cents(150)]
EntryAnonymous == [EmptyEntry EXCEPT !.quantity = N(1)]

\* user "1" is u1 by its numeric id, "l@x" is u2 by e-mail, "9" is nobody
RequestSamples ==
    {[NoRequest EXCEPT !.userId = "1", !.products = l, !.save = "false"] :
        l \in { <<EntryOtros, EntryLeche>>, <<EntryByCode, EntryGone>>,
                <<EntryLeche, EntryLeche>>, <<EntryByCode, EntryByCode>>,
                <<EntryLeche, EntryNone>>, <<EntryAnonymous>> }}
    \cup { [NoRequest EXCEPT !.userId = "1", !.products = <<EntryLeche>>],
           [NoRequest EXCEPT !.userId = "9", !.products = <<EntryLeche>>],
           [NoRequest EXCEPT !.userId = "l@x", !.products = <<EntryHalf>>,
                             !.save = "false"],
           [NoRequest EXCEPT !.userId = "u2", !.products = <<EntryOtros>>,
                             !.save = "false", !.discount = N(1)],
           NoRequest }

TxInit ==
    /\ orders = <<>>
    /\ reports = <<>>
    /\ projections = <<>>
    /\ now \in NowDays
    /\ response = NoResponse

\* router.post('/') of backend-business (srv = FALSE) and of
\* server/routes/reports.js (srv = TRUE)
PostReports(srv, req) ==
    LET Reply(out, report) ==
            /\ products' = out.db.products
            /\ users' = out.db.users
            /\ orders' = out.db.orders
            /\ reports' = IF out.status = 0 /\ NotFalse(req.save)
                          THEN Append(reports, [type |-> "snapshot", payload |-> report])
                          ELSE reports
            /\ response' = [kind |-> IF srv THEN "serverPost" ELSE "post",
                            status |-> IF out.status # 0 THEN out.status
                                       ELSE IF srv /\ Len(out.db.orders) > Len(orders)
                                            THEN 201 ELSE 200,
                            body |-> EmptyBody, request |-> req,
                            report |-> IF out.status = 0 THEN report ELSE EmptyReport,
                            projection |-> EmptyProjection, fault |-> "none"]
        Report(out) ==
            Reply(out,
                  IF srv THEN buildReportDataServer(out.db.orders, out.db.products, now)
                  ELSE buildReportData(out.db.orders, out.db.products, now))
    IN  /\ Len(orders) < MaxOrders
        /\ Len(reports) < MaxReports
        /\ Report(CreateOrder([products |-> products, users |-> users,
                               orders |-> orders], req, srv, now))
        /\ UNCHANGED <<extVars, projections, now, numVars, ordVars>>

-----------------------------------------------------------------------------
(* Claims about the resolution of one order's revenue (SpecOrder) *)

RECURSIVE FirstNonZero(_)
FirstNonZero(ns) ==
    IF ns = <<>> THEN 0
    ELSE IF Head(ns) # 0 THEN Head(ns) ELSE FirstNonZero(Tail(ns))

\* the explicit total field of an order, under any of its paths and aliases
StatedExplicitTotal(o) ==
    FirstNonZero(<<toNumber(ResumenTotalesTotal(o), 0),
                   toNumber(Field(o.resumen, "total"), 0),
                   toNumber(Field(o.totales, "total"), 0),
                   toNumber(o.total, 0), toNumber(o.totalAmount, 0)>>)

HasComponents(t) ==
    t.obj /\ \E f \in {"subtotal", "subTotal", "iva", "tax", "envio", "shipping",
                       "discount"} : ~Nullish(t[f])

\* subtotal - discount + tax + shipping of a totals object
ComponentSum(t) ==
    toNumber(Coalesce(<<t.subtotal, t.subTotal, Num(0)>>), 0)
        - toNumber(Coalesce(<<t.discount, Num(0)>>), 0)
        + toNumber(Coalesce(<<t.iva, t.tax, Num(0)>>), 0)
        + toNumber(Coalesce(<<t.envio, t.shipping, Num(0)>>), 0)

\* the order's total components, wherever the order carries them
\* (resumen.totales, the legacy resumen, or the top-level totales)
StatedComponentTotal(o) ==
    IF o.resumen.obj /\ HasComponents(o.resumen.totales)
        THEN roundMoney(ComponentSum(o.resumen.totales))
    ELSE IF HasComponents(o.resumen) THEN roundMoney(ComponentSum(o.resumen))
    ELSE IF HasComponents(o.totales) THEN roundMoney(ComponentSum(o.totales))
    ELSE 0

\* C1: in buildReportData (backend-business) and buildFinancialProjection the
\* revenue attributed to an order is the first non-zero value of (1) the
\* explicit total field, (2) subtotal - discount + tax + shipping when any
\* component is present, (3) the sum of the reconstructed line revenues of its
\* items, (4) 0.
C1_ResolutionOrder ==
    /\ rev.snapshot.done =>
          rev.snapshot.value =
              FirstNonZero(<<StatedExplicitTotal(ord), StatedComponentTotal(ord),
                             computeOrderTotalFromItems(OrderItems(ord),
                                                        buildProductMap(products))>>)
    /\ rev.projection.done =>
          rev.projection.value =
              FirstNonZero(<<StatedExplicitTotal(ord), StatedComponentTotal(ord),
                             computeOrderTotalFromItemsProjection(OrderItems(ord))>>)

\* C2: with includeTaxes and includeShipping true and no category filter, the
\* revenue the custom report attributes to an order equals the revenue the
\* snapshot (buildReportData) attributes to the same order.
C2_CustomEqualsSnapshot ==
    (rev.snapshot.done /\ rev.custom.done
        /\ rev.custom.includeTaxes /\ rev.custom.includeShipping)
    => rev.custom.value = rev.snapshot.value

\* C3: the revenue that the snapshot, the custom report and the projection add
\* to their totals for an order is never negative.
C3_RevenueNonNegative ==
    /\ rev.snapshot.done => rev.snapshot.value >= 0
    /\ rev.custom.done => rev.custom.value >= 0
    /\ rev.projection.done => rev.projection.value >= 0

NoTotalFields(t) ==
    ~t.obj \/ (Nullish(t.total) /\ ~HasComponents(t))

\* an order without explicit total and without total components
NoTotalsAtAll(o) ==
    /\ NoTotalFields(o.resumen)
    /\ ~o.resumen.obj \/ NoTotalFields(o.resumen.totales)
    /\ NoTotalFields(o.totales)
    /\ Nullish(o.total) /\ Nullish(o.totalAmount)

\* a line's revenue: its explicit line revenue field when non-zero, otherwise
\* round(unitPrice x quantity)
StatedLineRevenue(item, pm) ==
    LET explicit == toNumber(OrChain(<<item.subtotal, item.lineTotal, item.total>>), 0)
        listed == toNumber(OrChain(<<item.precio, item.unitPrice, item.price,
                                     item.precioUnitario>>), 0)
        pid == IF item.productId # "" THEN item.productId ELSE item.id
        unitPrice == IF listed # 0 THEN listed ELSE InfoOf(pm, pid).price
        quantity == toNumber(OrChain(<<item.cantidad, item.quantity, item.qty>>), 0)
    IN  IF explicit # 0 THEN explicit ELSE RoundMoneyProduct(unitPrice, quantity)

RECURSIVE StatedLineSum(_, _)
StatedLineSum(list, pm) ==
    IF list = <<>> THEN 0
    ELSE StatedLineRevenue(Head(list), pm) + StatedLineSum(Tail(list), pm)

\* C9: for an order with no explicit total and no total components, the revenue
\* the snapshot attributes to the order is the rounded sum of its line
\* revenues, in the buildReportData of backend-business and in the one of
\* server/routes/reports.js.
C9_RevenueFromItems ==
    NoTotalsAtAll(ord) =>
        /\ rev.snapshot.done =>
              rev.snapshot.value =
                  roundMoney(StatedLineSum(OrderItems(ord), buildProductMap(products)))
        /\ rev.server.done =>
              rev.server.value =
                  roundMoney(StatedLineSum(OrderItems(ord), buildProductMap(products)))

-----------------------------------------------------------------------------
(* Claims about the normalizer (SpecNum) *)

CountOf(s, c) == Cardinality({i \in 1..Len(s) : s[i] = c})

\* a locale-formatted amount: optional sign, digits grouped by '.', one ',',
\* then the decimals (as in "1.234,56")
IsLocaleAmount(s) ==
    LET body == IF s # <<>> /\ Head(s) = "-" THEN Tail(s) ELSE s
        comma == IndexOf(body, ",")
        ip == SubSeq(body, 1, comma - 1)
        fp == SubSeq(body, comma + 1, Len(body))
    IN  /\ CountOf(body, ",") = 1
        /\ fp # <<>> /\ AllDigits(fp)
        /\ ip # <<>> /\ Head(ip) \in DigitSet
        /\ \A i \in 1..Len(ip) : ip[i] \in DigitSet \cup {"."}

\* the amount it denotes: '.' groups thousands, ',' is the decimal separator
LocaleValue(s) ==
    LET neg == s # <<>> /\ Head(s) = "-"
        body == IF neg THEN Tail(s) ELSE s
        comma == IndexOf(body, ",")
        ip == SelectSeq(SubSeq(body, 1, comma - 1), LAMBDA c : c # ".")
        fp == SubSeq(body, comma + 1, Len(body))
        v == DigitsValue(ip) * Scale + FractionValue(fp)
    IN  IF neg THEN 0 - v ELSE v

\* C7: toNumber strips every character except digits, '.', ',' and '-' and
\* then treats ',' as the decimal separator, so that a locale-formatted amount
\* such as "1.234,56" parses to 1234.56.
C7_LocaleParsing ==
    (numOut.done /\ numIn.t = "string" /\ IsLocaleAmount(StripNonNumeric(numIn.s)))
    => numOut.business = LocaleValue(StripNonNumeric(numIn.s))

\* absent (undefined), non-finite, or unparseable (a non-empty string without
\* any digit): the narrowest reading of the three cases
Unusable(v) ==
    \/ v.t \in {"undefined", "NaN", "Infinity"}
    \/ v.t = "string" /\ v.s # <<>> /\ \A i \in 1..Len(v.s) : v.s[i] \notin DigitSet

\* C8: toNumber(v, fallback) returns the caller-supplied fallback whenever v is
\* absent, non-finite or unparseable, whatever the fallback is (0 or e.g. 5).
C8_FallbackOnUnusable ==
    (numOut.done /\ Unusable(numIn))
    => (numOut.business = numFallback /\ numOut.server = numFallback)

-----------------------------------------------------------------------------
(* Claims about the reports (SpecReport) *)

\* the order is dated, and in the calendar month of `now` or in a later one
CurrentMonthOrLater(date) ==
    /\ date.kind = "date"
    /\ LET c == Civil(date.day)
           n == Civil(now)
       IN  c.y > n.y \/ (c.y = n.y /\ c.m >= n.m)

\* the total each buildReportData resolves for every order of the collection
ResolvedTotals(srv) ==
    [i \in 1..Len(orders) |->
        IF srv THEN ServerOrderTotal(orders[i])
        ELSE SnapshotOrderTotal(orders[i], buildProductMap(products))]

\* C10: in the snapshot report of either buildReportData, totals.sales
\* (totalVentas) is the rounded sum of the resolved totals of all orders, and
\* sales.month / orders.month (ventasMes / ordenesMes) are the rounded sum and
\* the count of exactly the orders dated at or after the local start of the
\* current month.
C10_SnapshotSums ==
    (response.kind \in {"snapshot", "serverSnapshot"} /\ response.status = 200) =>
        LET tot == ResolvedTotals(response.kind = "serverSnapshot")
            all == 1..Len(orders)
            month == {i \in all : CurrentMonthOrLater(OrderDate(orders[i]))}
        IN  /\ response.report.totals.sales = roundMoney(SumIdx(tot, all))
            /\ response.report.sales.month = roundMoney(SumIdx(tot, month))
            /\ response.report.orders.month = Cardinality(month)

\* two current-month orders of 100.00 and 50.50 and no other order give
\* 150.50, 2 and 150.50
C10_Witness ==
    /\ response.kind = "snapshot"
    /\ Len(orders) = 2
    /\ ResolvedTotals(FALSE) = <<N(100).n, Cents(5050).n>>
    /\ \A i \in 1..2 : CurrentMonthOrLater(OrderDate(orders[i]))
    /\ response.report.totals.sales = Cents(15050).n
    /\ response.report.orders.month = 2
    /\ response.report.sales.month = Cents(15050).n

\* a category, trimmed and compared without case
Folded(cat) ==
    LET t == TrimRight(TrimLeft(cat))
    IN  [i \in 1..Len(t) |-> LowerCase(t[i])]

\* the line items of an order whose resolved category is x
MatchingLines(o, x, pm) ==
    SelectSeq(OrderItems(o), LAMBDA item : Folded(LoopCategory(item, pm)) = x)

SumLines(list, pm) ==
    SumIdx([i \in 1..Len(list) |-> LoopLineRevenue(FALSE, list[i], pm)], 1..Len(list))

WithinBounds(f, amount) ==
    /\ f.minTotal.set => amount >= f.minTotal.v
    /\ f.maxTotal.set => amount <= f.maxTotal.v

\* C6: with a category filter X on the custom report, the counted orders are
\* orders with at least one line item whose resolved category is X (trimmed,
\* without case), and totals.sales is the rounded sum of the line revenues of
\* the matching line items of the counted orders, not of the orders' totals;
\* with no category filter (and no minTotal / maxTotal) every order the query
\* finds is counted.
C6_CategoryFilter ==
    (response.kind = "custom" /\ response.status = 200) =>
        LET f == ParseFilters(response.body, now)
            x == Folded(response.body.category)
            pm == buildProductMap(products)
            found == {i \in 1..Len(orders) : MatchesQuery(orders[i], f)}
            matching == [i \in 1..Len(orders) |->
                            SumLines(MatchingLines(orders[i], x, pm), pm)]
            counted == {i \in found : /\ MatchingLines(orders[i], x, pm) # <<>>
                                      /\ WithinBounds(f, matching[i])}
            t == response.report.totals
        IN  IF x # <<>>
            THEN /\ t.sales = roundMoney(SumIdx(matching, counted))
                 /\ "orders" \in t.keys => t.orders = Cardinality(counted)
            ELSE (~f.minTotal.set /\ ~f.maxTotal.set /\ "orders" \in t.keys)
                     => t.orders = Cardinality(found)

\* the filter "LA" counts a legacy order for its " LA " line of 30.00 only,
\* not for its total of 32.51
C6_Witness ==
    /\ response.kind = "custom"
    /\ response.body.category = <<"L", "A">>
    /\ Len(orders) = 1
    /\ OrderItems(orders[1]) = <<LineLegacy, LineOtros>>
    /\ response.report.totals.orders = 1
    /\ response.report.totals.sales = N(30).n

\* the revenue the custom report resolves for an order under the filters f
CustomRevenue(o, f, pm) ==
    IF f.category # <<>> THEN SumLines(MatchingLines(o, f.category, pm), pm)
    ELSE CustomComputedTotal(o, pm, f.includeTaxes, f.includeShipping)

\* C5: in the custom report an order whose resolved revenue is below minTotal
\* or above maxTotal contributes to none of totals, timeSeries, topCustomers,
\* topProducts and revenueByCategory: the report is the one of the collection
\* without these orders.
C5_ExcludedContributeNothing ==
    (response.kind = "custom" /\ response.status = 200) =>
        LET f == ParseFilters(response.body, now)
            pm == buildProductMap(products)
            kept == SelectSeq(orders,
                              LAMBDA o : WithinBounds(f, CustomRevenue(o, f, pm)))
        IN  response.report = customReport(kept, products, users, response.body, now)

\* the lines of the orders, in the order of the scan
RECURSIVE AllLines(_)
AllLines(os) ==
    IF os = <<>> THEN <<>> ELSE OrderItems(Head(os)) \o AllLines(Tail(os))

\* the position of the first line of the scan that belongs to the product a
\* row of topProducts shows (the modelled products differ in their names)
FirstEncounter(srv, pm, name) ==
    LET lines == AllLines(orders)
    IN  CHOOSE i \in 1..Len(lines) :
            /\ LoopName(srv, lines[i], pm) = name
            /\ \A j \in 1..(i - 1) : LoopName(srv, lines[j], pm) # name

\* C11: the topProducts of a snapshot report has at most 10 entries, is sorted
\* by quantity sold descending, and products of equal quantity appear in the
\* order in which the scan first encountered them, numeric-looking product
\* identifiers included
C11_SnapshotTopProducts ==
    (response.kind \in {"snapshot", "serverSnapshot"} /\ response.status = 200) =>
        LET srv == response.kind = "serverSnapshot"
            pm == IF srv THEN ServerProductMap(products) ELSE buildProductMap(products)
            top == response.report.topProducts
        IN  /\ Len(top) <= TopProductsLimit
            /\ \A i, j \in 1..Len(top) :
                   i < j => \/ top[i].quantity > top[j].quantity
                            \/ /\ top[i].quantity = top[j].quantity
                               /\ FirstEncounter(srv, pm, top[i].name)
                                      < FirstEncounter(srv, pm, top[j].name)

\* the lines the custom scan adds to productSales, in the order of the scan:
\* the lines of the found orders whose category passes the filter x
RECURSIVE ScannedLines(_, _, _, _)
ScannedLines(os, f, x, pm) ==
    IF os = <<>> THEN <<>>
    ELSE (IF ~MatchesQuery(Head(os), f) THEN <<>>
          ELSE IF x = <<>> THEN OrderItems(Head(os))
          ELSE MatchingLines(Head(os), x, pm))
         \o ScannedLines(Tail(os), f, x, pm)

FirstScanned(lines, pm, name) ==
    CHOOSE i \in 1..Len(lines) :
        /\ LoopName(FALSE, lines[i], pm) = name
        /\ \A j \in 1..(i - 1) : LoopName(FALSE, lines[j], pm) # name

\* C12: the topProducts of a custom report is sorted by quantity descending,
\* ties in encounter order, and has at most topN entries
C12_CustomTopProducts ==
    (response.kind = "custom" /\ response.status = 200) =>
        LET f == ParseFilters(response.body, now)
            pm == buildProductMap(products)
            lines == ScannedLines(orders, f, Folded(response.body.category), pm)
            top == response.report.topProducts
        IN  /\ Len(top) * Scale <= f.topN
            /\ \A i, j \in 1..Len(top) :
                   i < j => \/ top[i].quantity > top[j].quantity
                            \/ /\ top[i].quantity = top[j].quantity
                               /\ FirstScanned(lines, pm, top[i].name)
                                      < FirstScanned(lines, pm, top[j].name)

\* the orders the custom report counts under the filters f: found by the
\* query, with a line of the filtered category, and within minTotal / maxTotal
CountedOrders(f, pm) ==
    {i \in 1..Len(orders) :
        /\ MatchesQuery(orders[i], f)
        /\ f.category = <<>> \/ MatchingLines(orders[i], f.category, pm) # <<>>
        /\ WithinBounds(f, CustomRevenue(orders[i], f, pm))}

\* C13: in the custom report (of a type that keeps the time series),
\* timeSeries has exactly one entry per distinct period key of the counted
\* orders, in strictly ascending key order, and the entries' order counts and
\* sales sum to totals.orders and totals.sales
C13_TimeSeries ==
    (response.kind = "custom" /\ response.report.type \in {"custom", "sales"}) =>
        LET f == ParseFilters(response.body, now)
            counted == CountedOrders(f, buildProductMap(products))
            ts == response.report.timeSeries
            rows == 1..Len(ts)
        IN  /\ {ts[i].period : i \in rows}
                   = {PeriodKeyOf(OrderDate(orders[i]), f.groupBy) : i \in counted}
            /\ \A i, j \in rows : i < j => KeyLess(ts[i].period, ts[j].period)
            /\ SumIdx([i \in rows |-> ts[i].orders], rows)
                   = response.report.totals.orders
            /\ SumIdx([i \in rows |-> ts[i].sales], rows)
                   = response.report.totals.sales

\* the same without the sum of the sales
C13_KeysAndCounts ==
    (response.kind = "custom" /\ response.report.type \in {"custom", "sales"}) =>
        LET f == ParseFilters(response.body, now)
            counted == CountedOrders(f, buildProductMap(products))
            ts == response.report.timeSeries
            rows == 1..Len(ts)
        IN  /\ {ts[i].period : i \in rows}
                   = {PeriodKeyOf(OrderDate(orders[i]), f.groupBy) : i \in counted}
            /\ \A i, j \in rows : i < j => KeyLess(ts[i].period, ts[j].period)
            /\ SumIdx([i \in rows |-> ts[i].orders], rows)
                   = response.report.totals.orders

ReportTypes == {"sales", "products", "users", "custom"}

\* C14: invalid filter input is clamped or defaulted, never rejected: the
\* request is answered, the effective topN is in [1, 50], the effective groupBy
\* is day, week or month (month when unknown), the emitted report type is one
\* of sales, products, users and custom (the default when unknown), and a
\* projection with an unknown model is the linear one
C14_InvalidFiltersDefaulted ==
    /\ (response.kind = "custom" /\ response.fault = "none") =>
           LET f == response.report.filters
               found == SelectSeq(orders, LAMBDA o :
                            MatchesQuery(o, ParseFilters(response.body, now)))
           IN  /\ response.status = 200 \/ ScanThrows(found)
               /\ response.status = 200 =>
                      /\ f.topN >= TopNMin * Scale /\ f.topN <= TopNMax * Scale
                      /\ f.groupBy \in {"day", "week", "month"}
                      /\ response.body.groupBy \notin {"day", "week", "month"}
                             => f.groupBy = "month"
                      /\ response.report.type \in ReportTypes
                      /\ response.body.type \notin ReportTypes
                             => response.report.type = "custom"
    /\ (response.kind = "projection" /\ response.status = 200
           /\ response.body.model \notin {"linear", "average"}) =>
           [response.projection EXCEPT !.model = "linear"]
               = buildFinancialProjection(orders, response.projection.months,
                                          response.projection.forecastMonths,
                                          "linear", now)

\* C14 without the emitted type
C14_ClampedOrDefaulted ==
    /\ (response.kind = "custom" /\ response.status = 200) =>
           LET f == response.report.filters
           IN  /\ f.topN >= TopNMin * Scale /\ f.topN <= TopNMax * Scale
               /\ f.groupBy \in {"day", "week", "month"}
               /\ response.body.groupBy \notin {"day", "week", "month"}
                      => f.groupBy = "month"
    /\ (response.kind = "projection" /\ response.status = 200
           /\ response.body.model \notin {"linear", "average"}) =>
           [response.projection EXCEPT !.model = "linear"]
               = buildFinancialProjection(orders, response.projection.months,
                                          response.projection.forecastMonths,
                                          "linear", now)

-----------------------------------------------------------------------------
(* Claims about the projection (SpecReport) *)

\* a projection was answered under the model a body asks for
Projected(models) ==
    /\ response.kind = "projection"
    /\ response.status = 200
    /\ response.body.model \in models

\* the sum of the month-over-month changes of a field of the series, and
\* their number (1 when there is none: the average change is then 0)
SumOfChanges(series, field) ==
    SumIdx([i \in 1..(Len(series) - 1) |-> series[i + 1][field] - series[i][field]],
           1..(Len(series) - 1))
Changes(series) == IF Len(series) > 1 THEN Len(series) - 1 ELSE 1

\* the months a forecast covers: i = 1..forecastMonths
MonthsAhead(forecastMonths) == {i \in 1..12 : i * Scale <= forecastMonths}

\* C15: under the linear model with a non-empty series, the projected total
\* of month i ahead (i = 1..forecastMonths) is
\* round(lastObservedTotal + max(0, avgDelta) * i), so the projected totals
\* never decrease with i and are never below the last observed month's total;
\* the same holds for the projected order counts
C15_LinearForecast ==
    (Projected({"", "linear"}) /\ response.projection.series # <<>>) =>
        LET p == response.projection
            last == p.series[Len(p.series)]
            k == Changes(p.series)
            ahead == MonthsAhead(p.forecastMonths)
        IN  /\ DOMAIN p.projectionSales = ahead
            /\ DOMAIN p.projectionOrders = ahead
            /\ \A i \in ahead :
                   /\ p.projectionSales[i].projectedTotal
                          = RoundMoneyQuotient(
                                last.total * k
                                    + Max(0, SumOfChanges(p.series, "total")) * i, k)
                   /\ p.projectionOrders[i].projectedOrders
                          = RoundDiv(last.orders * k
                                         + Max(0, SumOfChanges(p.series, "orders")) * i,
                                     k)
                   /\ p.projectionSales[i].projectedTotal >= last.total
                   /\ p.projectionOrders[i].projectedOrders >= last.orders
                   /\ \A j \in ahead :
                          j < i => /\ p.projectionSales[j].projectedTotal
                                         <= p.projectionSales[i].projectedTotal
                                   /\ p.projectionOrders[j].projectedOrders
                                         <= p.projectionOrders[i].projectedOrders

\* C16: under the model 'average', every forecasted month's projected total
\* is the mean of the series totals rounded to 2 decimals, and every projected
\* order count is the rounded mean of the series order counts, whatever the
\* month index
C16_AverageForecast ==
    (Projected({"average"}) /\ response.projection.series # <<>>) =>
        LET p == response.projection
            n == Len(p.series)
            ahead == MonthsAhead(p.forecastMonths)
        IN  /\ DOMAIN p.projectionSales = ahead
            /\ DOMAIN p.projectionOrders = ahead
            /\ \A i \in ahead :
                   /\ p.projectionSales[i].projectedTotal
                          = RoundMoneyQuotient(
                                SumIdx([j \in 1..n |-> p.series[j].total], 1..n), n)
                   /\ p.projectionOrders[i].projectedOrders
                          = RoundDiv(SumIdx([j \in 1..n |-> p.series[j].orders], 1..n),
                                     n)

\* no stored order resolves to a valid Date: there is no order, or every
\* order's fecha || createdAt is an Invalid Date
NoDatedOrder == \A i \in 1..Len(orders) : OrderDate(orders[i]).kind # "date"

-----------------------------------------------------------------------------
(* Claims about persistence and failures (SpecReport) *)

\* the save flag a request came with
SaveFlag(r) == IF r.kind = "snapshot" THEN r.request.save ELSE r.body.save

\* `after` is `before` with exactly one more record, whose payload is `payload`
OneMoreRecord(before, after, payload) ==
    /\ Len(after) = Len(before) + 1
    /\ SubSeq(after, 1, Len(before)) = before
    /\ after[Len(after)].payload = payload

\* C18: a snapshot without an order payload, a custom report or a projection
\* modifies no Order, Product or User record; when it completes and save is
\* neither false nor 'false' it creates exactly one Report (Projection)
\* record, holding the payload it returns; with save false or 'false' the
\* stores are unchanged and the payload is only returned
C18_FrameAndSave ==
    [][response'.kind \in {"snapshot", "custom", "projection"} =>
          /\ orders' = orders
          /\ products' = products
          /\ users' = users
          /\ IF response'.status = 200 /\ SaveFlag(response') \notin {"false", "'false'"}
             THEN IF response'.kind = "projection"
                  THEN /\ OneMoreRecord(projections, projections', response'.projection)
                       /\ reports' = reports
                  ELSE /\ OneMoreRecord(reports, reports', response'.report)
                       /\ projections' = projections
             ELSE /\ reports' = reports
                  /\ projections' = projections]_vars

\* a custom report over stored orders was answered and saved once
C18_Witness ==
    /\ orders # <<>>
    /\ response.kind = "custom"
    /\ response.status = 200
    /\ response.body.save = "absent"
    /\ response.report.totals.orders > 0
    /\ Len(reports) = 1
    /\ reports[1].payload = response.report

\* C19: when reading orders, products or users fails during a snapshot, a
\* custom report or a projection, the request ends with an error response
\* that carries no payload, and no Report or Projection record is saved
C19_ReadFailure ==
    [][response'.fault # "none" =>
          /\ response'.kind \in {"snapshot", "custom", "projection"}
          /\ response'.status = 500
          /\ response'.report = EmptyReport
          /\ response'.projection = EmptyProjection
          /\ reports' = reports
          /\ projections' = projections]_vars

\* a custom report asked over stored orders while reading the users failed
C19_Witness ==
    /\ orders # <<>>
    /\ response.kind = "custom"
    /\ response.fault = "users"
    /\ response.status = 500
    /\ response.body.save = "absent"
    /\ reports = <<>>

\* the stored orders with the absent line-item entries skipped
SkipAbsentEntries(os) ==
    [i \in 1..Len(os) |->
        [os[i] EXCEPT !.resumen.productos.list = SelectSeq(@, LAMBDA it : it.obj),
                      !.productos.list = SelectSeq(@, LAMBDA it : it.obj),
                      !.items.list = SelectSeq(@, LAMBDA it : it.obj)]]

\* C20: a single malformed order (an unparseable numeric field, a missing
\* date, a malformed or absent line-item entry) never aborts an aggregation
\* run: the report is produced, and it is the report of the same orders with
\* the bad fields taken as 0 and the bad entries skipped
C20_MalformedOrderTolerated ==
    (response.kind \in {"snapshot", "custom", "projection"} /\ response.fault = "none") =>
        /\ response.status = 200
        /\ response.kind = "snapshot" =>
               response.report = buildReportData(SkipAbsentEntries(orders), products, now)
        /\ response.kind = "custom" =>
               response.report = customReport(SkipAbsentEntries(orders), products, users,
                                              response.body, now)
        /\ response.kind = "projection" =>
               response.projection.series
                   = ProjectionSeries(
                         MonthScan(<<>>, SkipAbsentEntries(orders),
                                   SeriesStart(orders, response.projection.months, now)))

-----------------------------------------------------------------------------
(* Claims about order creation (SpecTx) *)

\* the entries of a request that name product p, by _id or by numeric id
EntriesOf(req, p) ==
    {i \in 1..Len(req.products) :
        findProductByIdentifier(products, EntryId(req.products[i])) = p}

\* some entry names no product of the collection
SomeNotFound(req) ==
    \E i \in 1..Len(req.products) :
        findProductByIdentifier(products, EntryId(req.products[i])) = ""

\* the quantity a request asks of product p: the sum of the whole quantities of
\* its entries
FlooredOf(srv, req, p) ==
    SumIdx([i \in 1..Len(req.products) |-> EntryQuantity(srv, req.products[i])],
           EntriesOf(req, p))

StockOf(srv, prods, p) == ToNum(srv, prods[p].stock, 0)

NothingWritten == products' = products /\ orders' = orders /\ users' = users

\* one Order is written and the user's order list gains it
OneOrderWritten(uid) ==
    /\ Len(orders') = Len(orders) + 1
    /\ SubSeq(orders', 1, Len(orders)) = orders
    /\ uid # ""
    /\ Len(users'[uid].orders) = Len(users[uid].orders) + 1
    /\ users'[uid].orders[Len(users'[uid].orders)].orderId = Len(orders')
    /\ orders'[Len(orders')].userId = uid

\* a request with an order payload has been handled in this step
OrderRequested ==
    /\ response'.kind \in {"post", "serverPost"}
    /\ response'.request.userId # ""
    /\ response'.request.products # <<>>

\* C4 as stated: for every body with userId and products, if a requested
\* product is not found or has less stock than the quantity requested of it,
\* nothing is written; otherwise every requested product's stock goes down by
\* exactly the requested quantity, one Order is written and the user's order
\* list gains it.
C4_AsStated ==
    [][OrderRequested =>
        LET req == response'.request
            srv == response'.kind = "serverPost"
            uid == findUserByIdentifier(users, req.userId)
            short == \E p \in DOMAIN products :
                         StockOf(srv, products, p) < FlooredOf(srv, req, p)
        IN  IF SomeNotFound(req) \/ short THEN NothingWritten
            ELSE /\ \A p \in DOMAIN products :
                        StockOf(srv, products', p)
                            = StockOf(srv, products, p) - FlooredOf(srv, req, p)
                 /\ OneOrderWritten(uid)]_vars

\* the user exists, and every entry has a product id and a quantity of at least 1
Accepted(srv, req) ==
    /\ findUserByIdentifier(users, req.userId) # ""
    /\ \A i \in 1..Len(req.products) :
          /\ EntryId(req.products[i]) # ""
          /\ EntryQuantity(srv, req.products[i]) >= Scale

\* C4: order creation is all-or-nothing.  A request whose user is not found, or
\* with an entry without product id or with a quantity that floors below 1, is
\* rejected and writes nothing.  For the others, if a requested product is not
\* found or has less stock than the quantity requested of it (the sum of the
\* floored quantities of its entries), no stock changes, no Order is written
\* and the user's orders and cart stay; otherwise every requested product's
\* stock goes down by exactly that quantity, one Order is written and the
\* user's order list gains it.
C4_AllOrNothing ==
    [][OrderRequested =>
        LET req == response'.request
            srv == response'.kind = "serverPost"
            uid == findUserByIdentifier(users, req.userId)
            short == \E p \in DOMAIN products :
                         StockOf(srv, products, p) < FlooredOf(srv, req, p)
        IN  IF ~Accepted(srv, req) \/ SomeNotFound(req) \/ short
            THEN NothingWritten /\ response'.status \in {400, 404}
            ELSE /\ \A p \in DOMAIN products :
                        StockOf(srv, products', p)
                            = StockOf(srv, products, p) - FlooredOf(srv, req, p)
                 /\ OneOrderWritten(uid)
                 /\ response'.status \in {200, 201}]_vars

\* after one order of two units of p1, a request for the last unit of p1 and
\* for a product that does not exist is refused and the unit is still there
C4_Witness ==
    /\ response.kind = "post"
    /\ response.status = 404
    /\ response.request.products = <<EntryByCode, EntryGone>>
    /\ Len(orders) = 1
    /\ products["p1"].stock = N(1)
    /\ Len(users["u1"].orders) = 1
    /\ users["u1"].cart = <<>>

-----------------------------------------------------------------------------
(* PUT /reports/:id of server/routes/reports.js *)

\* A field of the request body is a string; "undefined" stands for a field the
\* body does not have and "null" for the JSON null.

\* the tipo enum of reportSchema
TipoEnum == {"daily", "weekly", "monthly", "yearly", "snapshot"}

\* a report as buildReportData of server/routes/reports.js returns it and
\* POST /reports saves it
SavedReport(oid, id, ventas, ordenes) ==
    [_id |-> oid, id |-> id, tipo |-> "snapshot", notas |-> "",
     periodoInicio |-> 31, periodoFin |-> 45, generadoEn |-> 45,
     totalVentas |-> ventas, totalOrdenes |-> ordenes,
     totalProductosVendidos |-> 2 * ordenes,
     ventasHoy |-> 0, ventasSemana |-> ventas, ventasMes |-> ventas,
     ordenesHoy |-> 0, ordenesSemana |-> ordenes, ordenesMes |-> ordenes,
     topProductos |-> <<[productId |-> "p1", nombre |-> "Leche",
                         cantidadVendida |-> 2 * ordenes, ingresos |-> ventas]>>,
     ventasPorCategoria |-> [lacteos |-> ventas]]

\* the Report collection after two POST /reports with save
ReportsAtCreation ==
    [oid \in {"r1", "r2"} |->
        IF oid = "r1" THEN SavedReport("r1", "1", 150500, 2)
        ELSE SavedReport("r2", "2", 0, 0)]

\* mongoose.Types.ObjectId.isValid(identifier) for the identifiers of the model
IsReportObjectId(identifier) == identifier \in {"r1", "r2", "r9"}

\* findReportByIdentifier: the _id of the report found, "" for null
findReportByIdentifier(docs, identifier) ==
    IF IsReportObjectId(identifier) /\ identifier \in DOMAIN docs THEN identifier
    ELSE IF \E oid \in DOMAIN docs : docs[oid].id = identifier
    THEN CHOOSE oid \in DOMAIN docs : docs[oid].id = identifier
    ELSE ""

\* String(v || fallback) of a body field
StringOr(v, fallback) == IF v \in {"null", ""} THEN fallback ELSE v

\* lines 540-544: the updates object
PutUpdates_WholeBody(body) ==
    [f \in {g \in DOMAIN body : body[g] # "undefined"} |->
        IF f = "tipo" THEN StringOr(body[f], "snapshot")
        ELSE IF f = "notas" THEN StringOr(body[f], "")
        ELSE 0]
PutUpdates(body) ==
    [f \in {g \in {"notas", "tipo"} : body[g] # "undefined"} |->
        IF f = "tipo" THEN StringOr(body[f], "snapshot") ELSE StringOr(body[f], "")]

\* runValidators: the update is rejected when tipo is outside the enum
UpdateIsValid(updates) == "tipo" \in DOMAIN updates => updates["tipo"] \in TipoEnum

\* { $set: updates } on one document
SetFields(doc, updates) ==
    [f \in DOMAIN doc |-> IF f \in DOMAIN updates THEN updates[f] ELSE doc[f]]

NoPutResponse == [status |-> 0, found |-> "", body |-> <<>>]

PutInit == stored = [docs |-> ReportsAtCreation, res |-> NoPutResponse]
PutIdle == stored = [docs |-> <<>>, res |-> NoPutResponse]

\* the request bodies of PUT /reports/:id
PutBodies ==
    [notas : {"undefined", "null", "ok"},
     tipo : {"undefined", "null", "daily", "total"},
     totalVentas : {"undefined", "0"}]

PutIdentifiers == {"r1", "r2", "r9", "1", "7"}

\* router.put('/:id')
PutReport(id, body) ==
    LET Respond(status, found, docs) ==
            stored' = [docs |-> docs,
                       res |-> [status |-> status, found |-> found, body |-> body]]
        Update(found, updates) ==
            IF found = "" THEN Respond(404, "", stored.docs)
            ELSE IF DOMAIN updates = {} THEN Respond(400, found, stored.docs)
            ELSE IF ~UpdateIsValid(updates) THEN Respond(500, found, stored.docs)
            ELSE Respond(200, found,
                         [stored.docs EXCEPT ![found] = SetFields(@, updates)])
    IN  /\ Update(findReportByIdentifier(stored.docs, id), PutUpdates(body))
        /\ UNCHANGED <<coreVars, conn, txs, cart, auth, mw, api>>

-----------------------------------------------------------------------------
(* connectWithRetry of backend-business/index.js and of the server *)

\* the two processes that run the loop at start-up
Services == {"business", "server"}

\* `if (attempts < 5)`
MaxRetries == 5
\* `2000 * (attempts + 1)`, in ms
RetryDelayUnit == 2000

ShouldRetry_Through(attempts) == attempts <= MaxRetries
ShouldRetry(attempts) == attempts < MaxRetries

RetryDelay(attempts) == RetryDelayUnit * (attempts + 1)

\* One loop: `attempts` is the argument of the call in progress or of the
\* last call, `made` counts the calls of mongoose.connect, `timers` the
\* pending setTimeout callbacks, `delay` the delay of the pending timer and
\* `waited` the time since it was set; phase is "connecting" while
\* mongoose.connect is awaited.
LoopStart ==
    [phase |-> "connecting", attempts |-> 0, made |-> 1, timers |-> 0, delay |-> 0,
     waited |-> 0]

ConnInit == conn = [svc \in Services |-> LoopStart]
ConnIdle == conn = <<>>

\* mongoose.connect resolves
Connected(svc) ==
    /\ conn[svc].phase = "connecting"
    /\ conn' = [conn EXCEPT ![svc].phase = "connected"]
    /\ UNCHANGED <<coreVars, stored, txs, cart, auth, mw, api>>

\* mongoose.connect rejects: the catch block
ConnectFailed(svc) ==
    /\ conn[svc].phase = "connecting"
    /\ conn' = IF ShouldRetry(conn[svc].attempts)
               THEN [conn EXCEPT ![svc].phase = "waiting",
                                 ![svc].timers = @ + 1,
                                 ![svc].delay = RetryDelay(conn[svc].attempts),
                                 ![svc].waited = 0]
               ELSE [conn EXCEPT ![svc].phase = "failed"]
    /\ UNCHANGED <<coreVars, stored, txs, cart, auth, mw, api>>

\* time passes for a pending timer
TimerTick(svc) ==
    /\ conn[svc].timers > 0
    /\ conn[svc].waited < conn[svc].delay
    /\ conn' = [conn EXCEPT ![svc].waited = @ + RetryDelayUnit]
    /\ UNCHANGED <<coreVars, stored, txs, cart, auth, mw, api>>

\* the timer fires: connectWithRetry(uri, attempts + 1)
TimerFires(svc) ==
    /\ conn[svc].timers > 0
    /\ conn[svc].waited >= conn[svc].delay
    /\ conn' = [conn EXCEPT ![svc].phase = "connecting",
                            ![svc].timers = @ - 1,
                            ![svc].attempts = @ + 1,
                            ![svc].made = @ + 1]
    /\ UNCHANGED <<coreVars, stored, txs, cart, auth, mw, api>>

-----------------------------------------------------------------------------
(* Concurrent order-creating POST /reports requests *)

\* Each request runs its callback in a MongoDB transaction of its own session:
\* its reads see the snapshot taken at its first read plus its own writes, a
\* write to a document that another transaction has written since (committed
\* after the snapshot, or not yet committed) fails with a WriteConflict, and
\* session.withTransaction runs the callback again on that transient error.

Requests == 1..MaxRequests

\* the stock of the two products before the requests
StockAtStart == [p \in ProductIds |-> IF p = "p1" THEN 3 ELSE 1]

\* sanitizedItems of a request
Line(p, q) == [productId |-> p, quantity |-> q]
SanitizedSamples ==
    { <<Line("p1", 2)>>,
      <<Line("p1", 1), Line("p1", 1)>>,
      <<Line("p2", 1), Line("p1", 2)>>,
      <<Line("p1", 1), Line("p2", 2)>> }

NoWrites == [p \in ProductIds |-> -1]

\* a request that has not reached the transaction
TxIdle ==
    [pc |-> "idle", items |-> <<>>, i |-> 0, snapshot |-> FALSE,
     seen |-> StockAtStart, seenVersion |-> [p \in ProductIds |-> 0],
     writes |-> NoWrites, stock |-> 0, status |-> 0]

TxsInit ==
    txs = [stock |-> StockAtStart, version |-> [p \in ProductIds |-> 0],
           committed |-> <<>>, req |-> [r \in Requests |-> TxIdle]]
TxsIdle == txs = <<>>

\* another transaction has written the document since the snapshot of r
WriteConflict_Never(r, p) == FALSE
WriteConflict(r, p) ==
    \/ txs.version[p] # txs.req[r].seenVersion[p]
    \/ \E o \in Requests \ {r} :
           txs.req[o].pc \in {"read", "save", "commit"} /\ txs.req[o].writes[p] >= 0

\* session.withTransaction(callback) is reached
TxBegin(r, items) ==
    /\ txs.req[r].pc = "idle"
    /\ txs' = [txs EXCEPT !.req[r] = [TxIdle EXCEPT !.pc = "read", !.items = items,
                                                     !.i = 1]]
    /\ UNCHANGED <<coreVars, stored, conn, cart, auth, mw, api>>

\* findProductByIdentifier(item.productId, session) and the stock check
TxRead(r) ==
    LET t == txs.req[r]
        p == t.items[t.i].productId
        seen == IF t.snapshot THEN t.seen ELSE txs.stock
        seenVersion == IF t.snapshot THEN t.seenVersion ELSE txs.version
        available == IF t.writes[p] >= 0 THEN t.writes[p] ELSE seen[p]
    IN  /\ t.pc = "read"
        /\ txs' = IF available < t.items[t.i].quantity
                  THEN [txs EXCEPT !.req[r] = [TxIdle EXCEPT !.pc = "done",
                                                            !.items = t.items,
                                                            !.status = 400]]
                  ELSE [txs EXCEPT !.req[r].pc = "save",
                                   !.req[r].snapshot = TRUE,
                                   !.req[r].seen = seen,
                                   !.req[r].seenVersion = seenVersion,
                                   !.req[r].stock = available - t.items[t.i].quantity]
        /\ UNCHANGED <<coreVars, stored, conn, cart, auth, mw, api>>

\* product.save({ session }): on a WriteConflict the transaction is aborted
\* and the callback starts again
TxSave(r) ==
    LET t == txs.req[r]
        p == t.items[t.i].productId
    IN  /\ t.pc = "save"
        /\ txs' = IF WriteConflict(r, p)
                  THEN [txs EXCEPT !.req[r] = [TxIdle EXCEPT !.pc = "read",
                                                            !.items = t.items,
                                                            !.i = 1]]
                  ELSE [txs EXCEPT !.req[r].writes[p] = t.stock,
                                   !.req[r].i = t.i + 1,
                                   !.req[r].pc = IF t.i = Len(t.items) THEN "commit"
                                                 ELSE "read"]
        /\ UNCHANGED <<coreVars, stored, conn, cart, auth, mw, api>>

\* the callback returns: the order is created and the transaction commits
TxCommit(r) ==
    LET t == txs.req[r]
        written == {p \in ProductIds : t.writes[p] >= 0}
    IN  /\ t.pc = "commit"
        /\ txs' = [txs EXCEPT
                      !.stock = [p \in ProductIds |->
                                    IF p \in written THEN t.writes[p] ELSE @[p]],
                      !.version = [p \in ProductIds |->
                                      IF p \in written THEN @[p] + 1 ELSE @[p]],
                      !.committed = Append(@, t.items),
                      !.req[r] = [TxIdle EXCEPT !.pc = "done", !.items = t.items,
                                                !.status = 200]]
        /\ UNCHANGED <<coreVars, stored, conn, cart, auth, mw, api>>

-----------------------------------------------------------------------------
(* backend-crud/routes/cart.js: quick-add and microservice-checkout *)

\* Quantities and stock are plain integers in this layer.  The cart is the
\* cart of the user "u1"; a line is [productId, cantidad].

\* BUSINESS_RULES.MAX_ITEMS_PER_PRODUCT
MAX_ITEMS_PER_PRODUCT == 99

\* resolveProductsByIdentifiers([productId]).get(String(productId)): the _id of
\* the product found by its _id or by its id field, "" when there is none
ResolveProduct(productId) ==
    IF productId \in ProductIds THEN productId
    ELSE IF \E q \in ProductIds : Catalog[q].id = productId
    THEN CHOOSE q \in ProductIds : Catalog[q].id = productId
    ELSE ""

\* user.cart.findIndex(item => String(item.productId || item.id) ===
\* String(productId)): 0 when no line matches
FindLine(lines, productId) ==
    IF \E i \in 1..Len(lines) : lines[i].productId = productId
    THEN CHOOSE i \in 1..Len(lines) :
             /\ lines[i].productId = productId
             /\ \A j \in 1..(i - 1) : lines[j].productId # productId
    ELSE 0

\* POST /quick-add: the status of the response and the cart afterwards
QuickAdd(lines, stock, userId, productId, cantidad) ==
    LET Add(product, at) ==
            IF product = "" THEN [status |-> 404, lines |-> lines]
            ELSE IF stock[product] < cantidad THEN [status |-> 400, lines |-> lines]
            ELSE IF userId # "u1" THEN [status |-> 404, lines |-> lines]
            ELSE IF at = 0
            THEN [status |-> 200,
                  lines |-> Append(lines, [productId |-> product,
                                           cantidad |-> cantidad])]
            ELSE IF lines[at].cantidad + cantidad > MAX_ITEMS_PER_PRODUCT
            THEN [status |-> 400, lines |-> lines]
            ELSE [status |-> 200,
                  lines |-> [lines EXCEPT ![at].cantidad = @ + cantidad]]
    IN  IF userId = "" \/ productId = "" THEN [status |-> 400, lines |-> lines]
        ELSE Add(ResolveProduct(productId), FindLine(lines, productId))

\* POST /validate: isValid
IsValidItem(stock, item) ==
    LET Check(product) ==
            /\ product # ""
            /\ item.cantidad > 0
            /\ item.cantidad <= MAX_ITEMS_PER_PRODUCT
            /\ stock[product] # 0
            /\ item.cantidad <= stock[product]
    IN  Check(ResolveProduct(item.productId))

\* step 4 of microservice-checkout: one quick-add per item, stopping at the
\* first that is not ok; `adds` counts the calls
RECURSIVE AddAll(_, _, _, _, _)
AddAll(lines, stock, userId, items, adds) ==
    IF items = <<>> THEN [status |-> 200, lines |-> lines, adds |-> adds]
    ELSE LET Step(one) ==
                 IF one.status # 200
                 THEN [status |-> 502, lines |-> one.lines, adds |-> adds + 1]
                 ELSE AddAll(one.lines, stock, userId, Tail(items), adds + 1)
         IN  Step(QuickAdd(lines, stock, userId, Head(items).productId,
                           IF Head(items).cantidad # 0 THEN Head(items).cantidad
                           ELSE 1))

NoCartResponse == [kind |-> "none", status |-> 0, adds |-> 0, passed |-> 0]

CartInit ==
    /\ cart \in [lines : {<<>>},
                 stock : {[p \in ProductIds |-> IF p = "p1" THEN n ELSE 99] :
                             n \in {50, 150}},
                 res : {NoCartResponse}]
CartIdle == cart = <<>>

CartUsers == {"u1", "u9", ""}
CartProductIds == {"p1", "101", "p2", "p9"}
Cantidades == {40, 60, 150}

\* the items of a checkout request
CartItem(p, q) == [productId |-> p, cantidad |-> q]
CheckoutSamples ==
    { <<>>,
      <<CartItem("p1", 60), CartItem("p1", 60)>>,
      <<CartItem("p1", 40), CartItem("p2", 40)>>,
      <<CartItem("p2", 40), CartItem("p9", 40)>>,
      <<CartItem("101", 40)>>,
      <<CartItem("p1", 150)>> }

\* router.post('/quick-add')
PostQuickAdd(userId, productId, cantidad) ==
    LET Respond(out) ==
            /\ Len(out.lines) <= MaxCartLines
            /\ cart' = [cart EXCEPT !.lines = out.lines,
                                    !.res = [kind |-> "quick-add", status |-> out.status,
                                             adds |-> 1, passed |-> 0]]
    IN  /\ Respond(QuickAdd(cart.lines, cart.stock, userId, productId, cantidad))
        /\ UNCHANGED <<coreVars, stored, conn, txs, auth, mw, api>>

\* router.post('/microservice-checkout'); `failing` is the internal call that
\* does not answer ok ("none": every service answers); `passed` counts the
\* steps validate, apply-promotions and calculate that succeeded
PostCheckout(userId, items, failing) ==
    LET Respond(status, passed, out) ==
            /\ Len(out.lines) <= MaxCartLines
            /\ cart' = [cart EXCEPT !.lines = out.lines,
                                    !.res = [kind |-> "checkout", status |-> status,
                                             adds |-> out.adds, passed |-> passed]]
        Same == [lines |-> cart.lines, adds |-> 0]
        Finish(out) == Respond(out.status, 3, out)
    IN  /\ IF items = <<>> THEN Respond(400, 0, Same)
           ELSE IF failing = "validate" THEN Respond(502, 0, Same)
           ELSE IF \E i \in 1..Len(items) : ~IsValidItem(cart.stock, items[i])
           THEN Respond(400, 0, Same)
           ELSE IF failing = "apply-promotions" THEN Respond(502, 1, Same)
           ELSE IF failing = "calculate" THEN Respond(502, 2, Same)
           ELSE Finish(AddAll(cart.lines, cart.stock, userId, items, 0))
        /\ UNCHANGED <<coreVars, stored, conn, txs, auth, mw, api>>

-----------------------------------------------------------------------------
(* server/routes/auth.js: e-mail verification *)

\* A verification token is a positive number, fresh for every
\* crypto.randomBytes(20); 0 stands for no token (undefined).  Time is counted
\* in days; -1 stands for no expiry date.

\* `Date.now() + 24 * 60 * 60 * 1000`, in days
TokenLifetimeDays == 1

Emails == {"a@x", "b@x"}

\* a user that has not registered
NoUser == [registered |-> FALSE, emailVerified |-> FALSE, token |-> 0, expires |-> -1]

NoAuthResponse == [kind |-> "none", status |-> 0, token |-> 0, email |-> ""]

\* `issued` is the list of the tokens sent to each address
AuthInit ==
    auth = [users |-> [e \in Emails |-> NoUser], issued |-> [e \in Emails |-> <<>>],
            next |-> 1, clock |-> 0, res |-> NoAuthResponse]
AuthIdle == auth = <<>>

\* User.findOne({ emailVerificationToken: token }): the address of the user,
\* "" for null
FindByToken(us, token) ==
    IF \E e \in Emails : us[e].registered /\ us[e].token = token
    THEN CHOOSE e \in Emails : us[e].registered /\ us[e].token = token
    ELSE ""

\* user.emailVerificationExpires && user.emailVerificationExpires < new Date()
IsExpired_Never(user, clock) == FALSE
IsExpired(user, clock) == user.expires # -1 /\ user.expires < clock

\* router.post('/register')
Register(email) ==
    LET Respond(status, us, sent) ==
            auth' = [auth EXCEPT !.users = us,
                                 !.issued = IF sent THEN [@ EXCEPT ![email] =
                                                             Append(@, auth.next)]
                                            ELSE @,
                                 !.next = IF sent THEN @ + 1 ELSE @,
                                 !.res = [kind |-> "register", status |-> status,
                                          token |-> 0, email |-> email]]
    IN  /\ auth.next <= MaxTokens
        /\ IF auth.users[email].registered THEN Respond(409, auth.users, FALSE)
           ELSE Respond(201,
                        [auth.users EXCEPT ![email] =
                            [registered |-> TRUE, emailVerified |-> FALSE,
                             token |-> auth.next,
                             expires |-> auth.clock + TokenLifetimeDays]],
                        TRUE)
        /\ UNCHANGED <<coreVars, stored, conn, txs, cart, mw, api>>

\* router.get('/verify-email')
VerifyEmail(token) ==
    LET Respond(status, us) ==
            auth' = [auth EXCEPT !.users = us,
                                 !.res = [kind |-> "verify-email", status |-> status,
                                          token |-> token, email |-> ""]]
        Verify(e) ==
            IF e = "" THEN Respond(404, auth.users)
            ELSE IF IsExpired(auth.users[e], auth.clock) THEN Respond(400, auth.users)
            ELSE Respond(200, [auth.users EXCEPT ![e].emailVerified = TRUE,
                                                 ![e].token = 0,
                                                 ![e].expires = -1])
    IN  /\ IF token = 0 THEN Respond(400, auth.users)
           ELSE Verify(FindByToken(auth.users, token))
        /\ UNCHANGED <<coreVars, stored, conn, txs, cart, mw, api>>

\* router.post('/resend-verification'); sendMail runs after the save, and
\* its failure is answered 500
ResendVerification(email, mailFails) ==
    LET Respond(status, us, sent) ==
            auth' = [auth EXCEPT !.users = us,
                                 !.issued = IF sent THEN [@ EXCEPT ![email] =
                                                             Append(@, auth.next)]
                                            ELSE @,
                                 !.next = IF sent THEN @ + 1 ELSE @,
                                 !.res = [kind |-> "resend-verification",
                                          status |-> status, token |-> 0,
                                          email |-> email]]
    IN  /\ auth.next <= MaxTokens
        /\ IF ~auth.users[email].registered THEN Respond(404, auth.users, FALSE)
           ELSE IF auth.users[email].emailVerified THEN Respond(400, auth.users, FALSE)
           ELSE Respond(IF mailFails THEN 500 ELSE 200,
                        [auth.users EXCEPT ![email].token = auth.next,
                                           ![email].expires =
                                               auth.clock + TokenLifetimeDays],
                        TRUE)
        /\ UNCHANGED <<coreVars, stored, conn, txs, cart, mw, api>>

\* a day passes
DayPasses ==
    /\ auth.clock < MaxClock
    /\ auth' = [auth EXCEPT !.clock = @ + 1]
    /\ UNCHANGED <<coreVars, stored, conn, txs, cart, mw, api>>

-----------------------------------------------------------------------------
(* server/middleware/auth.js: authMiddleware *)

\* A header is a sequence of characters, or NoHeader when the request has
\* none (req.headers.authorization is undefined).  "v" and "x" are the
\* characters of tokens: the tokens made of "v" alone are the ones signed
\* with JWT_SECRET and not expired.
HeaderChars == {"B", " ", "v", "x"}
NoHeader == <<"undefined">>
Headers == {NoHeader} \cup UNION {[1..n -> HeaderChars] : n \in 0..MaxHeaderLen}

\* auth.split(' '): the parts between the spaces, empty parts included
RECURSIVE SplitFrom(_, _, _, _)
SplitFrom(str, i, cur, acc) ==
    IF i > Len(str) THEN Append(acc, cur)
    ELSE IF str[i] = " " THEN SplitFrom(str, i + 1, <<>>, Append(acc, cur))
    ELSE SplitFrom(str, i + 1, Append(cur, str[i]), acc)
split_SkipEmpty(str) == SelectSeq(SplitFrom(str, 1, <<>>, <<>>), LAMBDA part : part # <<>>)
split(str) == SplitFrom(str, 1, <<>>, <<>>)

\* jwt.verify(token, secret): the payload, or a throw
JwtVerifies(token) == token # <<>> /\ \A i \in 1..Len(token) : token[i] = "v"
JwtPayload(token) == [id |-> Len(token)]
NoPayload == [id |-> 0]

MwInit == mw = [header |-> NoHeader, done |-> FALSE, nextCalled |-> FALSE,
                status |-> 0, user |-> NoPayload]
MwIdle == mw = <<>>

\* function authMiddleware(req, res, next)
authMiddleware(header) ==
    LET Respond(status) ==
            mw' = [header |-> header, done |-> TRUE, nextCalled |-> FALSE,
                   status |-> status, user |-> NoPayload]
        Next(payload) ==
            mw' = [header |-> header, done |-> TRUE, nextCalled |-> TRUE,
                   status |-> 0, user |-> payload]
        Check(parts) ==
            IF Len(parts) # 2 THEN Respond(401)
            ELSE IF JwtVerifies(parts[2]) THEN Next(JwtPayload(parts[2]))
            ELSE Respond(401)
    IN  /\ IF header = NoHeader \/ header = <<>> THEN Respond(401)
           ELSE Check(split(header))
        /\ UNCHANGED <<coreVars, stored, conn, txs, cart, auth, api>>

-----------------------------------------------------------------------------
(* unnamed/part_002: apiFetch *)

\* The two storages hold a token or "" (getItem answers null).  A call keeps
\* the token it read, the count of network errors, the delays it waited and
\* a log of its fetches: whether each carried the Authorization header and
\* how it settled ("network-error" or the status of the response).

maxAttempts == 3
BackoffUnit == 200

Methods == {"GET", "POST"}
\* res.status, written as text
Statuses == {"200", "304", "401", "500"}
Tokens == {"", "tok"}

\* function getToken(): sessionStorage first, then localStorage
getToken(session, local) == IF session # "" THEN session ELSE local

\* if (attempt >= maxAttempts) throw networkErr
Exhausted_Late(attempt) == attempt > maxAttempts
Exhausted(attempt) == attempt >= maxAttempts

\* setTimeout(resolve, 200 * attempt)
Backoff(attempt) == BackoffUnit * attempt

\* what the call does with a response that is not retried: the cached data
\* or [] on a 304 of a GET, the parsed body when res.ok, a throw otherwise
Settle(method, status) ==
    IF status = "304" /\ method = "GET" THEN "value"
    ELSE IF status = "200" THEN "value"
    ELSE "throw"

NoCall == [pc |-> "idle", method |-> "GET", token |-> "", attempt |-> 0,
           waits |-> <<>>, log |-> <<>>, outcome |-> "none"]

ApiInit ==
    \E session \in Tokens, local \in Tokens :
        api = [session |-> session, local |-> local, call |-> NoCall]
ApiIdle == api = <<>>

\* apiFetch(path, options) up to its first fetch
ApiCall(method) ==
    /\ api.call.pc \in {"idle", "done"}
    /\ api' = [api EXCEPT !.call = [NoCall EXCEPT !.pc = "fetch",
                                                  !.method = method,
                                                  !.token = getToken(api.session,
                                                                     api.local)]]
    /\ UNCHANGED <<coreVars, stored, conn, txs, cart, auth, mw>>

\* the fetch of the loop rejects with a network error
FetchFails ==
    LET Fail(c, attempt) ==
            IF Exhausted(attempt)
            THEN [c EXCEPT !.pc = "done", !.attempt = attempt, !.outcome = "throw"]
            ELSE [c EXCEPT !.pc = "backoff", !.attempt = attempt,
                           !.waits = Append(@, Backoff(attempt))]
    IN  /\ api.call.pc = "fetch"
        /\ api' = [api EXCEPT !.call =
                       Fail([api.call EXCEPT !.log =
                                Append(@, [auth |-> api.call.token # "",
                                           result |-> "network-error"])],
                            api.call.attempt + 1)]
        /\ UNCHANGED <<coreVars, stored, conn, txs, cart, auth, mw>>

\* the timer of the backoff fires
BackoffEnds ==
    /\ api.call.pc = "backoff"
    /\ api' = [api EXCEPT !.call.pc = "fetch"]
    /\ UNCHANGED <<coreVars, stored, conn, txs, cart, auth, mw>>

\* the fetch of the loop resolves with a response
FetchResponds(status) ==
    LET logged == [api.call EXCEPT !.log =
                       Append(@, [auth |-> api.call.token # "", result |-> status])]
    IN  /\ api.call.pc = "fetch"
        /\ IF status = "401" /\ api.call.token # ""
           THEN api' = [session |-> "", local |-> "",
                        call |-> [logged EXCEPT !.pc = "retry"]]
           ELSE api' = [api EXCEPT !.call =
                           [logged EXCEPT !.pc = "done",
                                          !.outcome = Settle(api.call.method, status)]]
        /\ UNCHANGED <<coreVars, stored, conn, txs, cart, auth, mw>>

\* the fetch without Authorization settles: a network error rejects the call
RetrySettles(result) ==
    /\ api.call.pc = "retry"
    /\ api' = [api EXCEPT !.call =
                   [@ EXCEPT !.pc = "done",
                             !.log = Append(@, [auth |-> FALSE, result |-> result]),
                             !.outcome = IF result = "network-error" THEN "throw"
                                         ELSE Settle(api.call.method, result)]]
    /\ UNCHANGED <<coreVars, stored, conn, txs, cart, auth, mw>>

\* another tab or a login stores a token
StoreToken(inSession) ==
    /\ api.call.pc \in {"idle", "done"}
    /\ IF inSession THEN api.session = "" /\ api' = [api EXCEPT !.session = "tok"]
       ELSE api.local = "" /\ api' = [api EXCEPT !.local = "tok"]
    /\ UNCHANGED <<coreVars, stored, conn, txs, cart, auth, mw>>

-----------------------------------------------------------------------------
(* The layers a specification leaves alone *)

Collections == products = Catalog /\ users = Registered

CoreIdle == NumIdle /\ OrdIdle /\ ReportIdle /\ Collections

ExtIdle ==
    /\ PutIdle
    /\ ConnIdle
    /\ TxsIdle
    /\ CartIdle
    /\ AuthIdle
    /\ MwIdle
    /\ ApiIdle

OthersIdle(layer) ==
    /\ layer # "put" => PutIdle
    /\ layer # "conn" => ConnIdle
    /\ layer # "txs" => TxsIdle
    /\ layer # "cart" => CartIdle
    /\ layer # "auth" => AuthIdle
    /\ layer # "mw" => MwIdle
    /\ layer # "api" => ApiIdle

-----------------------------------------------------------------------------
(* Specifications *)

\* the normalizer on one input
InitNum == NumInit /\ OrdIdle /\ ReportIdle /\ Collections /\ ExtIdle
NextNum == ApplyToNumber
SpecNum == InitNum /\ [][NextNum]_vars

\* one order document through the four aggregators
InitOrder == OrdInit /\ NumIdle /\ ReportIdle /\ Collections /\ ExtIdle
NextOrder ==
    \/ ResolveSnapshot
    \/ ResolveProjection
    \/ ResolveServer
    \/ \E includeTaxes \in BOOLEAN, includeShipping \in BOOLEAN :
          ResolveCustom(includeTaxes, includeShipping)
SpecOrder == InitOrder /\ [][NextOrder]_vars

\* the report endpoints over a collection of orders
InitReport == ReportInit /\ NumIdle /\ OrdIdle /\ Collections /\ ExtIdle
NextReport ==
    \/ \E save \in SaveSamples : PostSnapshot(save, "none")
    \/ \E fault \in {"orders", "products"} : PostSnapshot("absent", fault)
    \/ GetLatestServer
    \/ \E body \in BodySamples : PostCustom(body, "none")
    \/ \E fault \in {"orders", "products", "users"} : PostCustom(EmptyBody, fault)
    \/ \E body \in ProjectionBodies : PostProjection(body, "none")
    \/ PostProjection(EmptyBody, "orders")
SpecReport == InitReport /\ [][NextReport]_vars

\* the order-creating requests, from an empty Order collection
InitTx == TxInit /\ NumIdle /\ OrdIdle /\ Collections /\ ExtIdle
NextTx == \E srv \in BOOLEAN, req \in RequestSamples : PostReports(srv, req)
SpecTx == InitTx /\ [][NextTx]_vars

\* the saved reports under PUT /reports/:id
InitPut == PutInit /\ CoreIdle /\ OthersIdle("put")
NextPut == \E id \in PutIdentifiers, body \in PutBodies : PutReport(id, body)
SpecPut == InitPut /\ [][NextPut]_vars

-----------------------------------------------------------------------------
(* Claims about saved reports (SpecPut) *)

\* the aggregated fields of a saved report: everything but the identifiers
\* and the metadata
AggregatedFields ==
    {"periodoInicio", "periodoFin", "generadoEn", "totalVentas", "totalOrdenes",
     "totalProductosVendidos", "ventasHoy", "ventasSemana", "ventasMes",
     "ordenesHoy", "ordenesSemana", "ordenesMes", "topProductos",
     "ventasPorCategoria"}

\* C21: after any sequence of PUT /reports/:id requests the aggregated fields
\* of every saved report (and its identifiers) equal their values at
\* creation, only notas and tipo can differ, and a PUT that carries no
\* updatable field answers 400 and leaves every report unchanged
C21_ImmutableButMetadata ==
    [][/\ DOMAIN stored'.docs = DOMAIN ReportsAtCreation
       /\ \A oid \in DOMAIN ReportsAtCreation :
              \A f \in AggregatedFields \cup {"_id", "id"} :
                  stored'.docs[oid][f] = ReportsAtCreation[oid][f]
       /\ (/\ stored'.res.found # ""
           /\ stored'.res.body.notas = "undefined"
           /\ stored'.res.body.tipo = "undefined") =>
              /\ stored'.res.status = 400
              /\ stored'.docs = stored.docs]_vars

\* a report whose metadata was edited, after a PUT that carried only
\* totalVentas and was refused
C21_Witness ==
    /\ stored.docs # <<>>
    /\ stored.docs["r1"].notas = "ok"
    /\ stored.docs["r1"].tipo = "daily"
    /\ stored.res.status = 400
    /\ stored.res.found = "r1"
    /\ stored.res.body.totalVentas = "0"

-----------------------------------------------------------------------------
(* The reconnect loops *)

InitConn == ConnInit /\ CoreIdle /\ OthersIdle("conn")
NextConn ==
    \E svc \in Services :
        \/ Connected(svc)
        \/ ConnectFailed(svc)
        \/ TimerTick(svc)
        \/ TimerFires(svc)
\* a pending connect settles and a pending timer fires
SpecConn == InitConn /\ [][NextConn]_vars /\ WF_vars(NextConn)

-----------------------------------------------------------------------------
(* Claims about the reconnect loop (SpecConn) *)

\* C22: connectWithRetry is bounded and terminates: at most 6 connection
\* attempts (the first and 5 retries), a wait of 2000 * k ms before the k-th
\* retry, at most one retry scheduled per failure, no attempt after the first
\* successful connection, and every loop ends
C22_BoundedReconnect ==
    /\ [](\A svc \in Services : conn[svc].made <= 6 /\ conn[svc].timers <= 1)
    /\ [][\A svc \in Services :
             /\ conn'[svc].made > conn[svc].made =>
                    /\ conn'[svc].made = conn[svc].made + 1
                    /\ conn[svc].phase = "waiting"
                    /\ conn[svc].waited = 2000 * conn[svc].made
             /\ conn'[svc].timers > conn[svc].timers =>
                    /\ conn'[svc].timers = conn[svc].timers + 1
                    /\ conn[svc].phase = "connecting"
                    /\ conn'[svc].phase = "waiting"
             /\ conn[svc].phase = "connected" => conn'[svc] = conn[svc]]_vars
    /\ <>[](\A svc \in Services :
               conn[svc].phase \in {"connected", "failed"} /\ conn[svc].timers = 0)

\* one loop gave up after its sixth attempt, the other connected on its
\* third attempt after waiting 4000 ms
C22_Witness ==
    /\ conn # <<>>
    /\ conn["business"].phase = "failed"
    /\ conn["business"].made = 6
    /\ conn["server"].phase = "connected"
    /\ conn["server"].made = 3
    /\ conn["server"].waited = 4000

-----------------------------------------------------------------------------
(* Concurrent order creation *)

InitTxs == TxsInit /\ CoreIdle /\ OthersIdle("txs")
NextTxs ==
    \E r \in Requests :
        \/ \E items \in SanitizedSamples : TxBegin(r, items)
        \/ TxRead(r)
        \/ TxSave(r)
        \/ TxCommit(r)
SpecTxs == InitTxs /\ [][NextTxs]_vars

-----------------------------------------------------------------------------
(* Claims about concurrent order creation (SpecTxs) *)

\* the total quantity of product p in the lines of an order
RECURSIVE QuantityIn(_, _)
QuantityIn(items, p) ==
    IF items = <<>> THEN 0
    ELSE (IF Head(items).productId = p THEN Head(items).quantity ELSE 0)
         + QuantityIn(Tail(items), p)

\* the total quantity of product p in the committed orders
RECURSIVE CommittedQuantity(_, _)
CommittedQuantity(list, p) ==
    IF list = <<>> THEN 0
    ELSE QuantityIn(Head(list), p) + CommittedQuantity(Tail(list), p)

\* C23: after any sequence or interleaving of order-creating POST /reports
\* requests every product's stock is >= 0, and its stock has decreased by
\* exactly the total quantity of the product in the committed orders, also
\* when a request lists the same product twice
C23_StockMatchesOrders ==
    \A p \in DOMAIN txs.stock :
        /\ txs.stock[p] >= 0
        /\ StockAtStart[p] - txs.stock[p] = CommittedQuantity(txs.committed, p)

\* two requests for the same product have ended: the one that listed it
\* twice committed, the other found too little stock left and was refused
C23_Witness ==
    /\ txs # <<>>
    /\ Len(txs.committed) = 1
    /\ txs.committed[1] = <<Line("p1", 1), Line("p1", 1)>>
    /\ txs.stock["p1"] = 1
    /\ \E r \in Requests : txs.req[r].status = 400 /\ txs.req[r].items = <<Line("p1", 2)>>
    /\ \A r \in Requests : txs.req[r].pc = "done"

-----------------------------------------------------------------------------
(* The cart *)

InitCart == CartInit /\ CoreIdle /\ OthersIdle("cart")
NextCart ==
    \/ \E userId \in CartUsers, productId \in CartProductIds, cantidad \in Cantidades :
           PostQuickAdd(userId, productId, cantidad)
    \/ \E items \in CheckoutSamples : PostCheckout("u1", items, "none")
    \/ \E failing \in {"validate", "apply-promotions", "calculate"} :
           PostCheckout("u1", <<CartItem("p1", 40)>>, failing)
    \/ PostCheckout("u9", <<CartItem("p1", 40)>>, "none")
SpecCart == InitCart /\ [][NextCart]_vars

\* quick-add requests only
NextQuickAdd ==
    \E userId \in CartUsers, productId \in CartProductIds, cantidad \in Cantidades :
        PostQuickAdd(userId, productId, cantidad)
SpecQuickAdd == InitCart /\ [][NextQuickAdd]_vars

-----------------------------------------------------------------------------
(* Claims about the cart (SpecQuickAdd, SpecCart) *)

\* C24: after any sequence of quick-add requests from an empty cart no cart
\* line has a quantity above MAX_ITEMS_PER_PRODUCT, and none has a quantity
\* above the stock of its product
C24_QuantityWithinLimits ==
    \A i \in 1..Len(cart.lines) :
        /\ cart.lines[i].cantidad <= MAX_ITEMS_PER_PRODUCT
        /\ cart.lines[i].cantidad <= cart.stock[cart.lines[i].productId]

\* C25: after any sequence of quick-add requests the cart holds at most one
\* line per product, whether the product was named by its _id or by its id
C25_OneLinePerProduct ==
    \A i, j \in 1..Len(cart.lines) :
        cart.lines[i].productId = cart.lines[j].productId => i = j

\* C26: microservice-checkout calls quick-add only after validate answered
\* isValid and apply-promotions and calculate succeeded, and when it ends
\* with 400, 502 or 500 the cart is what it was before the request
C26_CheckoutAllOrNothing ==
    [][cart'.res.kind = "checkout" =>
          /\ cart'.res.adds > 0 => cart'.res.passed = 3
          /\ cart'.res.status \in {400, 500, 502} => cart'.lines = cart.lines]_vars

-----------------------------------------------------------------------------
(* Claims about the forecast months (SpecReport) *)

\* the key of the i-th calendar month after the month of `day`
MonthAfter(day, i) ==
    <<Civil(day).y + ((Civil(day).m - 1 + i) \div 12),
      ((Civil(day).m - 1 + i) % 12) + 1, 0>>

\* C27: for a non-empty series and an integer forecastMonths >= 0,
\* projectionSales and projectionOrders have exactly forecastMonths entries,
\* and on every current date the i-th entry is labelled with the i-th
\* calendar month after the current month
C27_ForecastMonths ==
    (/\ response.kind = "projection"
     /\ response.status = 200
     /\ response.projection.series # <<>>
     /\ response.projection.forecastMonths >= 0
     /\ response.projection.forecastMonths % Scale = 0) =>
        LET p == response.projection
            n == p.forecastMonths \div Scale
        IN  /\ Len(p.projectionSales) = n
            /\ Len(p.projectionOrders) = n
            /\ \A i \in 1..n :
                   /\ p.projectionSales[i].month = MonthAfter(now, i)
                   /\ p.projectionOrders[i].month = MonthAfter(now, i)

-----------------------------------------------------------------------------
(* E-mail verification *)

InitAuth == AuthInit /\ CoreIdle /\ OthersIdle("auth")
NextAuth ==
    \/ \E email \in Emails : Register(email)
    \/ \E token \in 0..MaxTokens : VerifyEmail(token)
    \/ \E email \in Emails, mailFails \in BOOLEAN : ResendVerification(email, mailFails)
    \/ DayPasses
SpecAuth == InitAuth /\ [][NextAuth]_vars

-----------------------------------------------------------------------------
(* Claims about e-mail verification (SpecAuth) *)

\* the last token sent to an address, 0 when none was
LastIssued(e) == IF auth.issued[e] = <<>> THEN 0 ELSE auth.issued[e][Len(auth.issued[e])]

\* token was sent to e at day `at` or later and is the last one sent to e
IsCurrentUnexpired(e, token) ==
    /\ token # 0
    /\ token = LastIssued(e)
    /\ auth.users[e].token = token
    /\ auth.users[e].expires = -1 \/ auth.users[e].expires >= auth.clock

\* the step is the answer to a request of the given kind
Answers(kind) == auth'.clock = auth.clock /\ auth'.res.kind = kind

-----------------------------------------------------------------------------
(* The authorization middleware *)

InitMw == MwInit /\ CoreIdle /\ OthersIdle("mw")
NextMw == \E header \in Headers : authMiddleware(header)
SpecMw == InitMw /\ [][NextMw]_vars

-----------------------------------------------------------------------------
(* Claims about the authorization middleware (SpecMw) *)

\* the positions of the spaces of a header
SpacesOf(header) == {i \in 1..Len(header) : header[i] = " "}

\* the header is present, has one space, and what follows the space verifies
WellFormedAndSigned(header) ==
    /\ header # NoHeader
    /\ Cardinality(SpacesOf(header)) = 1
    /\ LET sp == CHOOSE i \in SpacesOf(header) : TRUE
       IN  JwtVerifies(SubSeq(header, sp + 1, Len(header)))

\* C29: authMiddleware calls next() with req.user set to the token payload
\* exactly when the Authorization header is present, has exactly two
\* space-separated parts and its second part verifies as a JWT; otherwise it
\* responds 401 without calling next(); it never does both nor neither
C29_PassOrReject ==
    mw.done =>
        /\ mw.nextCalled <=> WellFormedAndSigned(mw.header)
        /\ mw.status = 401 <=> ~WellFormedAndSigned(mw.header)
        /\ mw.nextCalled <=> mw.status = 0
        /\ mw.status \in {0, 401}
        /\ mw.nextCalled =>
               LET sp == CHOOSE i \in SpacesOf(mw.header) : TRUE
               IN  mw.user = JwtPayload(SubSeq(mw.header, sp + 1, Len(mw.header)))

\* a header of a scheme, a space and a signed token is let through
C29_Witness ==
    /\ mw # <<>>
    /\ mw.done
    /\ mw.header = <<"B", " ", "v", "v">>
    /\ mw.nextCalled
    /\ mw.user = JwtPayload(<<"v", "v">>)

-----------------------------------------------------------------------------
(* The API client *)

InitApi == ApiInit /\ CoreIdle /\ OthersIdle("api")
\* the steps of a call in progress: every fetch settles and every timer fires
ApiRuns ==
    \/ FetchFails
    \/ BackoffEnds
    \/ \E status \in Statuses : FetchResponds(status)
    \/ \E result \in Statuses \cup {"network-error"} : RetrySettles(result)
NextApi ==
    \/ \E method \in Methods : ApiCall(method)
    \/ ApiRuns
    \/ \E inSession \in BOOLEAN : StoreToken(inSession)
SpecApi == InitApi /\ [][NextApi]_vars /\ WF_vars(ApiRuns)

-----------------------------------------------------------------------------
(* Claims about the API client (SpecApi) *)

\* the fetches of the call that carried the token it read, or none when it
\* read no token: the fetches of the loop
LoopFetches(c) == {i \in 1..Len(c.log) : c.log[i].auth = (c.token # "")}
NetworkErrors(c) == {i \in 1..Len(c.log) : c.log[i].result = "network-error"}
\* the fetches made after a 401 answered a fetch that carried the token
Retries(c) ==
    {i \in 2..Len(c.log) : c.log[i - 1].result = "401" /\ c.log[i - 1].auth}

\* what holds of a call at every moment
CallBounds ==
    LET c == api.call
    IN  /\ Len(c.log) <= 4
        /\ Cardinality(Retries(c)) <= 1
        /\ \A i \in Retries(c) : i = Len(c.log) /\ ~c.log[i].auth
        /\ \A i \in 1..Len(c.log) : i \notin Retries(c) => c.log[i].auth = (c.token # "")
        /\ Len(c.log) - Cardinality(Retries(c)) <= 3
        /\ Cardinality(NetworkErrors(c) \ Retries(c)) <= 3
        /\ Len(c.waits) <= 2
        /\ \A i \in 1..Len(c.waits) : c.waits[i] = 200 * i
        /\ (c.pc = "retry" \/ Retries(c) # {}) => c.token # ""
        /\ c.pc = "retry" => api.session = "" /\ api.local = ""
        /\ (c.pc = "done" /\ Len(c.log) >= 3 /\ c.log[3].result = "network-error") =>
               c.outcome = "throw" /\ Len(c.log) = 3
        /\ c.pc = "done" <=> c.outcome \in {"value", "throw"}

\* what holds of every step of a call
CallSteps ==
    /\ (api.call.pc = "fetch" /\ api'.call.pc = "retry") =>
           /\ api.call.token # ""
           /\ api'.call.log[Len(api'.call.log)].result = "401"
           /\ api'.session = "" /\ api'.local = ""
    /\ (/\ api.call.pc = "fetch"
        /\ Len(api'.call.log) > Len(api.call.log)
        /\ api'.call.log[Len(api'.call.log)].result = "401"
        /\ api.call.token # "") => api'.call.pc = "retry"
    /\ (api.call.pc = "fetch" /\ api'.call.pc = "backoff") =>
           /\ api'.call.log[Len(api'.call.log)].result = "network-error"
           /\ api'.call.waits =
                  Append(api.call.waits, 200 * Cardinality(NetworkErrors(api'.call)))
    /\ (/\ api.call.pc = "fetch"
        /\ Len(api'.call.log) > Len(api.call.log)
        /\ api'.call.log[Len(api'.call.log)].result = "network-error") =>
           IF Cardinality(NetworkErrors(api'.call)) = 3
           THEN api'.call.pc = "done" /\ api'.call.outcome = "throw"
           ELSE api'.call.pc = "backoff"
    /\ api.call.pc = "retry" => api'.call.pc \in {"retry", "done"}

\* C30: a call makes at most 3 fetches on network errors, waiting 200 *
\* attempt ms between them, and rethrows after the third; on a 401 with a
\* stored token it removes the token from both storages and retries exactly
\* once without Authorization; a call makes at most 4 fetches and always
\* ends with a value or a throw
C30_BoundedFetches ==
    /\ []CallBounds
    /\ [][CallSteps]_vars
    /\ (api.call.pc \in {"fetch", "backoff", "retry"}) ~> (api.call.pc = "done")

\* a call that met two network errors, then a 401 that cleared the stored
\* token, and whose fetch without Authorization was answered
C30_Witness ==
    /\ api # <<>>
    /\ api.call.pc = "done"
    /\ Len(api.call.log) = 4
    /\ api.call.waits = <<200, 400>>
    /\ api.call.log[3].result = "401"
    /\ ~api.call.log[4].auth
    /\ api.session = "" /\ api.local = ""

====
